---- MODULE Spec2Model ----
(***************************************************************************)
(* Sales analytics pipeline: reading, parsing and validate_and_filter      *)
(* (utils/file_handler.py), the aggregation views and the report           *)
(* (utils/data_processor.py), the product mapping (utils/api_handler.py)   *)
(* and main (main.py), as Python 3.11 runs them.                           *)
(*                                                                         *)
(* Text is a sequence of characters.  A character is a one-character       *)
(* string; one that a string of TLA+ cannot hold is named by its escape in *)
(* Python ("\\x0b", "\\x60" for the backtick, "\\u2028").  The alphabet is *)
(* the 128 characters of ASCII, the whitespace and the decimal digits      *)
(* beyond them: ord, and with it the order of strings, is defined on these. *)
(*                                                                         *)
(* A float is a binary64 number.  [units |-> u] is the float u/256 for     *)
(* |u| < 2^30; any other finite float is [sign, mant, exp] with its 53-bit *)
(* mantissa as a natural number of any size; inf, -inf, nan and -0.0 are   *)
(* [special |-> ...].  Sums, products and quotients are rounded to the     *)
(* nearest float, a tie to the even mantissa, and float() reads decimal    *)
(* text the same way.  The result of round(x, 2) is [hundredths |-> h],    *)
(* the float nearest to h/100, or [sign, mag] for a greater one.  The      *)
(* integers of the program (Quantity, counts) are the integers of TLC: a   *)
(* quantity beyond 2^31 is outside the model.  A list is sorted as         *)
(* list.sort() sorts fewer than 64 entries.  An optional argument is <<>>  *)
(* (None) or <<v>>.                                                        *)
(*                                                                         *)
(* The state is the list of parsed records and the last call made on it    *)
(* with what it returned.  Spec calls validate_and_filter with every       *)
(* combination of arguments on lists of well-formed and ill-formed         *)
(* records; SpecAgg calls the six aggregation functions on lists of sales  *)
(* records; SpecRegions calls region_wise_sales on sales of many regions;  *)
(* SpecReport calls generate_sales_report; SpecCalls calls the functions   *)
(* and the enrichment one after the other on one list.  The records of     *)
(* these have prices that are multiples of 1/256, so that their sums are   *)
(* exact.  The other variables are the state of a run of main() (main.py), *)
(* which SpecMain follows from the read of the file to the report, on      *)
(* lines with prices of every kind; they rest while the functions are      *)
(* called on their own.                                                    *)
(***************************************************************************)
EXTENDS Integers, Sequences, FiniteSets, TLC

VARIABLES transactions, call,
          raw_lines, pc, valid_transactions, product_map, enriched_transactions,
          files, stages

\* The state of a run of main(): the lines read, the position in main, the locals
\* valid_transactions, product_map and enriched_transactions, the output files
\* written and the stages completed so far.
mainVars ==
    <<raw_lines, pc, valid_transactions, product_map, enriched_transactions,
      files, stages>>

vars == <<transactions, call, mainVars>>

\* ------------------------------------------------------------------ bounds
MaxInput == 2
MaxLen == 3
MaxN == 3
MaxRegions == 24
MaxEnriched == 2
MaxLines == 2

\* ------------------------------------------------------------------ values
None == <<>>
Some(v) == <<v>>

T001 == <<"T", "0", "0", "1">>
X001 == <<"X", "0", "0", "1">>
P101 == <<"P", "1", "0", "1">>
P102 == <<"P", "1", "0", "2">>
Q101 == <<"Q", "1", "0", "1">>
C001 == <<"C", "0", "0", "1">>
C002 == <<"C", "0", "0", "2">>
D001 == <<"D", "0", "0", "1">>
Mouse == <<"M", "o", "u", "s", "e">>
Keyboard == <<"K", "e", "y", "b", "o", "a", "r", "d">>
North == <<"N", "o", "r", "t", "h">>
north == <<"n", "o", "r", "t", "h">>
South == <<"S", "o", "u", "t", "h">>
Dec01 == <<"2", "0", "2", "4", "-", "1", "2", "-", "0", "1">>
Dec02 == <<"2", "0", "2", "4", "-", "1", "2", "-", "0", "2">>
Empty == <<>>

Transaction(t_id, date, p_id, p_name, qty, price, c_id, region) ==
    [TransactionID |-> t_id, Date |-> date, ProductID |-> p_id,
     ProductName |-> p_name, Quantity |-> qty, UnitPrice |-> price,
     CustomerID |-> c_id, Region |-> region]

\* Lists of at most n elements of S.
ListsUpTo(S, n) == UNION {[1..k -> S] : k \in 0..n}

\* ------------------------------------------------------------------- strings
\* line.split(sep): field is the field being read, fields the ones before it.
RECURSIVE SplitLoop(_, _, _, _)
SplitLoop(line, sep, field, fields) ==
    IF line = <<>> THEN Append(fields, field)
    ELSE IF Head(line) = sep THEN SplitLoop(Tail(line), sep, <<>>, Append(fields, field))
    ELSE SplitLoop(Tail(line), sep, Append(field, Head(line)), fields)

split(line, sep) == SplitLoop(line, sep, <<>>, <<>>)

\* s.replace(old, new) for a character old and a text new.
RECURSIVE replace(_, _, _)
replace(s, old, new) ==
    IF s = <<>> THEN <<>>
    ELSE (IF Head(s) = old THEN new ELSE <<Head(s)>>) \o replace(Tail(s), old, new)

\* The characters of code points 0 to 127, in the order of their code points.
Ascii ==
    <<"\\x00", "\\x01", "\\x02", "\\x03", "\\x04", "\\x05", "\\x06", "\\x07", "\\x08",
      "\t", "\n", "\\x0b", "\f", "\r", "\\x0e", "\\x0f", "\\x10", "\\x11", "\\x12",
      "\\x13", "\\x14", "\\x15", "\\x16", "\\x17", "\\x18", "\\x19", "\\x1a", "\\x1b",
      "\\x1c", "\\x1d", "\\x1e", "\\x1f", " ", "!", "\"", "#", "$", "%", "&", "'", "(",
      ")", "*", "+", ",", "-", ".", "/", "0", "1", "2", "3", "4", "5", "6", "7", "8",
      "9", ":", ";", "<", "=", ">", "?", "@", "A", "B", "C", "D", "E", "F", "G", "H",
      "I", "J", "K", "L", "M", "N", "O", "P", "Q", "R", "S", "T", "U", "V", "W", "X",
      "Y", "Z", "[", "\\", "]", "^", "_", "\\x60", "a", "b", "c", "d", "e", "f", "g",
      "h", "i", "j", "k", "l", "m", "n", "o", "p", "q", "r", "s", "t", "u", "v", "w",
      "x", "y", "z", "{", "|", "}", "~", "\\x7f">>

\* The characters that str.strip() removes: those for which str.isspace() holds.
Whitespace ==
    {"\t", "\n", "\\x0b", "\f", "\r", "\\x1c", "\\x1d", "\\x1e", "\\x1f", " ", "\\x85",
     "\\xa0", "\\u1680", "\\u2000", "\\u2001", "\\u2002", "\\u2003", "\\u2004",
     "\\u2005", "\\u2006", "\\u2007", "\\u2008", "\\u2009", "\\u200a", "\\u2028",
     "\\u2029", "\\u202f", "\\u205f", "\\u3000"}

\* The whitespace beyond code point 127, each with its code point.
Spaces ==
    <<<<"\\x85", 133>>, <<"\\xa0", 160>>, <<"\\u1680", 5760>>, <<"\\u2000", 8192>>,
      <<"\\u2001", 8193>>, <<"\\u2002", 8194>>, <<"\\u2003", 8195>>,
      <<"\\u2004", 8196>>, <<"\\u2005", 8197>>, <<"\\u2006", 8198>>,
      <<"\\u2007", 8199>>, <<"\\u2008", 8200>>, <<"\\u2009", 8201>>,
      <<"\\u200a", 8202>>, <<"\\u2028", 8232>>, <<"\\u2029", 8233>>,
      <<"\\u202f", 8239>>, <<"\\u205f", 8287>>, <<"\\u3000", 12288>>>>

\* The decimal digits beyond code point 127: of each script the code point of its
\* zero and its digits 0 to 9.
DigitRows ==
    <<[zero |-> 1632,
       digits |-> <<"\\u0660", "\\u0661", "\\u0662", "\\u0663", "\\u0664", "\\u0665",
                    "\\u0666", "\\u0667", "\\u0668", "\\u0669">>],
      [zero |-> 1776,
       digits |-> <<"\\u06f0", "\\u06f1", "\\u06f2", "\\u06f3", "\\u06f4", "\\u06f5",
                    "\\u06f6", "\\u06f7", "\\u06f8", "\\u06f9">>],
      [zero |-> 1984,
       digits |-> <<"\\u07c0", "\\u07c1", "\\u07c2", "\\u07c3", "\\u07c4", "\\u07c5",
                    "\\u07c6", "\\u07c7", "\\u07c8", "\\u07c9">>],
      [zero |-> 2406,
       digits |-> <<"\\u0966", "\\u0967", "\\u0968", "\\u0969", "\\u096a", "\\u096b",
                    "\\u096c", "\\u096d", "\\u096e", "\\u096f">>],
      [zero |-> 2534,
       digits |-> <<"\\u09e6", "\\u09e7", "\\u09e8", "\\u09e9", "\\u09ea", "\\u09eb",
                    "\\u09ec", "\\u09ed", "\\u09ee", "\\u09ef">>],
      [zero |-> 2662,
       digits |-> <<"\\u0a66", "\\u0a67", "\\u0a68", "\\u0a69", "\\u0a6a", "\\u0a6b",
                    "\\u0a6c", "\\u0a6d", "\\u0a6e", "\\u0a6f">>],
      [zero |-> 2790,
       digits |-> <<"\\u0ae6", "\\u0ae7", "\\u0ae8", "\\u0ae9", "\\u0aea", "\\u0aeb",
                    "\\u0aec", "\\u0aed", "\\u0aee", "\\u0aef">>],
      [zero |-> 2918,
       digits |-> <<"\\u0b66", "\\u0b67", "\\u0b68", "\\u0b69", "\\u0b6a", "\\u0b6b",
                    "\\u0b6c", "\\u0b6d", "\\u0b6e", "\\u0b6f">>],
      [zero |-> 3046,
       digits |-> <<"\\u0be6", "\\u0be7", "\\u0be8", "\\u0be9", "\\u0bea", "\\u0beb",
                    "\\u0bec", "\\u0bed", "\\u0bee", "\\u0bef">>],
      [zero |-> 3174,
       digits |-> <<"\\u0c66", "\\u0c67", "\\u0c68", "\\u0c69", "\\u0c6a", "\\u0c6b",
                    "\\u0c6c", "\\u0c6d", "\\u0c6e", "\\u0c6f">>],
      [zero |-> 3302,
       digits |-> <<"\\u0ce6", "\\u0ce7", "\\u0ce8", "\\u0ce9", "\\u0cea", "\\u0ceb",
                    "\\u0cec", "\\u0ced", "\\u0cee", "\\u0cef">>],
      [zero |-> 3430,
       digits |-> <<"\\u0d66", "\\u0d67", "\\u0d68", "\\u0d69", "\\u0d6a", "\\u0d6b",
                    "\\u0d6c", "\\u0d6d", "\\u0d6e", "\\u0d6f">>],
      [zero |-> 3558,
       digits |-> <<"\\u0de6", "\\u0de7", "\\u0de8", "\\u0de9", "\\u0dea", "\\u0deb",
                    "\\u0dec", "\\u0ded", "\\u0dee", "\\u0def">>],
      [zero |-> 3664,
       digits |-> <<"\\u0e50", "\\u0e51", "\\u0e52", "\\u0e53", "\\u0e54", "\\u0e55",
                    "\\u0e56", "\\u0e57", "\\u0e58", "\\u0e59">>],
      [zero |-> 3792,
       digits |-> <<"\\u0ed0", "\\u0ed1", "\\u0ed2", "\\u0ed3", "\\u0ed4", "\\u0ed5",
                    "\\u0ed6", "\\u0ed7", "\\u0ed8", "\\u0ed9">>],
      [zero |-> 3872,
       digits |-> <<"\\u0f20", "\\u0f21", "\\u0f22", "\\u0f23", "\\u0f24", "\\u0f25",
                    "\\u0f26", "\\u0f27", "\\u0f28", "\\u0f29">>],
      [zero |-> 4160,
       digits |-> <<"\\u1040", "\\u1041", "\\u1042", "\\u1043", "\\u1044", "\\u1045",
                    "\\u1046", "\\u1047", "\\u1048", "\\u1049">>],
      [zero |-> 4240,
       digits |-> <<"\\u1090", "\\u1091", "\\u1092", "\\u1093", "\\u1094", "\\u1095",
                    "\\u1096", "\\u1097", "\\u1098", "\\u1099">>],
      [zero |-> 6112,
       digits |-> <<"\\u17e0", "\\u17e1", "\\u17e2", "\\u17e3", "\\u17e4", "\\u17e5",
                    "\\u17e6", "\\u17e7", "\\u17e8", "\\u17e9">>],
      [zero |-> 6160,
       digits |-> <<"\\u1810", "\\u1811", "\\u1812", "\\u1813", "\\u1814", "\\u1815",
                    "\\u1816", "\\u1817", "\\u1818", "\\u1819">>],
      [zero |-> 6470,
       digits |-> <<"\\u1946", "\\u1947", "\\u1948", "\\u1949", "\\u194a", "\\u194b",
                    "\\u194c", "\\u194d", "\\u194e", "\\u194f">>],
      [zero |-> 6608,
       digits |-> <<"\\u19d0", "\\u19d1", "\\u19d2", "\\u19d3", "\\u19d4", "\\u19d5",
                    "\\u19d6", "\\u19d7", "\\u19d8", "\\u19d9">>],
      [zero |-> 6784,
       digits |-> <<"\\u1a80", "\\u1a81", "\\u1a82", "\\u1a83", "\\u1a84", "\\u1a85",
                    "\\u1a86", "\\u1a87", "\\u1a88", "\\u1a89">>],
      [zero |-> 6800,
       digits |-> <<"\\u1a90", "\\u1a91", "\\u1a92", "\\u1a93", "\\u1a94", "\\u1a95",
                    "\\u1a96", "\\u1a97", "\\u1a98", "\\u1a99">>],
      [zero |-> 6992,
       digits |-> <<"\\u1b50", "\\u1b51", "\\u1b52", "\\u1b53", "\\u1b54", "\\u1b55",
                    "\\u1b56", "\\u1b57", "\\u1b58", "\\u1b59">>],
      [zero |-> 7088,
       digits |-> <<"\\u1bb0", "\\u1bb1", "\\u1bb2", "\\u1bb3", "\\u1bb4", "\\u1bb5",
                    "\\u1bb6", "\\u1bb7", "\\u1bb8", "\\u1bb9">>],
      [zero |-> 7232,
       digits |-> <<"\\u1c40", "\\u1c41", "\\u1c42", "\\u1c43", "\\u1c44", "\\u1c45",
                    "\\u1c46", "\\u1c47", "\\u1c48", "\\u1c49">>],
      [zero |-> 7248,
       digits |-> <<"\\u1c50", "\\u1c51", "\\u1c52", "\\u1c53", "\\u1c54", "\\u1c55",
                    "\\u1c56", "\\u1c57", "\\u1c58", "\\u1c59">>],
      [zero |-> 42528,
       digits |-> <<"\\ua620", "\\ua621", "\\ua622", "\\ua623", "\\ua624", "\\ua625",
                    "\\ua626", "\\ua627", "\\ua628", "\\ua629">>],
      [zero |-> 43216,
       digits |-> <<"\\ua8d0", "\\ua8d1", "\\ua8d2", "\\ua8d3", "\\ua8d4", "\\ua8d5",
                    "\\ua8d6", "\\ua8d7", "\\ua8d8", "\\ua8d9">>],
      [zero |-> 43264,
       digits |-> <<"\\ua900", "\\ua901", "\\ua902", "\\ua903", "\\ua904", "\\ua905",
                    "\\ua906", "\\ua907", "\\ua908", "\\ua909">>],
      [zero |-> 43472,
       digits |-> <<"\\ua9d0", "\\ua9d1", "\\ua9d2", "\\ua9d3", "\\ua9d4", "\\ua9d5",
                    "\\ua9d6", "\\ua9d7", "\\ua9d8", "\\ua9d9">>],
      [zero |-> 43504,
       digits |-> <<"\\ua9f0", "\\ua9f1", "\\ua9f2", "\\ua9f3", "\\ua9f4", "\\ua9f5",
                    "\\ua9f6", "\\ua9f7", "\\ua9f8", "\\ua9f9">>],
      [zero |-> 43600,
       digits |-> <<"\\uaa50", "\\uaa51", "\\uaa52", "\\uaa53", "\\uaa54", "\\uaa55",
                    "\\uaa56", "\\uaa57", "\\uaa58", "\\uaa59">>],
      [zero |-> 44016,
       digits |-> <<"\\uabf0", "\\uabf1", "\\uabf2", "\\uabf3", "\\uabf4", "\\uabf5",
                    "\\uabf6", "\\uabf7", "\\uabf8", "\\uabf9">>],
      [zero |-> 65296,
       digits |-> <<"\\uff10", "\\uff11", "\\uff12", "\\uff13", "\\uff14", "\\uff15",
                    "\\uff16", "\\uff17", "\\uff18", "\\uff19">>],
      [zero |-> 66720,
       digits |-> <<"\\U000104a0", "\\U000104a1", "\\U000104a2", "\\U000104a3",
                    "\\U000104a4", "\\U000104a5", "\\U000104a6", "\\U000104a7",
                    "\\U000104a8", "\\U000104a9">>],
      [zero |-> 68912,
       digits |-> <<"\\U00010d30", "\\U00010d31", "\\U00010d32", "\\U00010d33",
                    "\\U00010d34", "\\U00010d35", "\\U00010d36", "\\U00010d37",
                    "\\U00010d38", "\\U00010d39">>],
      [zero |-> 69734,
       digits |-> <<"\\U00011066", "\\U00011067", "\\U00011068", "\\U00011069",
                    "\\U0001106a", "\\U0001106b", "\\U0001106c", "\\U0001106d",
                    "\\U0001106e", "\\U0001106f">>],
      [zero |-> 69872,
       digits |-> <<"\\U000110f0", "\\U000110f1", "\\U000110f2", "\\U000110f3",
                    "\\U000110f4", "\\U000110f5", "\\U000110f6", "\\U000110f7",
                    "\\U000110f8", "\\U000110f9">>],
      [zero |-> 69942,
       digits |-> <<"\\U00011136", "\\U00011137", "\\U00011138", "\\U00011139",
                    "\\U0001113a", "\\U0001113b", "\\U0001113c", "\\U0001113d",
                    "\\U0001113e", "\\U0001113f">>],
      [zero |-> 70096,
       digits |-> <<"\\U000111d0", "\\U000111d1", "\\U000111d2", "\\U000111d3",
                    "\\U000111d4", "\\U000111d5", "\\U000111d6", "\\U000111d7",
                    "\\U000111d8", "\\U000111d9">>],
      [zero |-> 70384,
       digits |-> <<"\\U000112f0", "\\U000112f1", "\\U000112f2", "\\U000112f3",
                    "\\U000112f4", "\\U000112f5", "\\U000112f6", "\\U000112f7",
                    "\\U000112f8", "\\U000112f9">>],
      [zero |-> 70736,
       digits |-> <<"\\U00011450", "\\U00011451", "\\U00011452", "\\U00011453",
                    "\\U00011454", "\\U00011455", "\\U00011456", "\\U00011457",
                    "\\U00011458", "\\U00011459">>],
      [zero |-> 70864,
       digits |-> <<"\\U000114d0", "\\U000114d1", "\\U000114d2", "\\U000114d3",
                    "\\U000114d4", "\\U000114d5", "\\U000114d6", "\\U000114d7",
                    "\\U000114d8", "\\U000114d9">>],
      [zero |-> 71248,
       digits |-> <<"\\U00011650", "\\U00011651", "\\U00011652", "\\U00011653",
                    "\\U00011654", "\\U00011655", "\\U00011656", "\\U00011657",
                    "\\U00011658", "\\U00011659">>],
      [zero |-> 71360,
       digits |-> <<"\\U000116c0", "\\U000116c1", "\\U000116c2", "\\U000116c3",
                    "\\U000116c4", "\\U000116c5", "\\U000116c6", "\\U000116c7",
                    "\\U000116c8", "\\U000116c9">>],
      [zero |-> 71472,
       digits |-> <<"\\U00011730", "\\U00011731", "\\U00011732", "\\U00011733",
                    "\\U00011734", "\\U00011735", "\\U00011736", "\\U00011737",
                    "\\U00011738", "\\U00011739">>],
      [zero |-> 71904,
       digits |-> <<"\\U000118e0", "\\U000118e1", "\\U000118e2", "\\U000118e3",
                    "\\U000118e4", "\\U000118e5", "\\U000118e6", "\\U000118e7",
                    "\\U000118e8", "\\U000118e9">>],
      [zero |-> 72016,
       digits |-> <<"\\U00011950", "\\U00011951", "\\U00011952", "\\U00011953",
                    "\\U00011954", "\\U00011955", "\\U00011956", "\\U00011957",
                    "\\U00011958", "\\U00011959">>],
      [zero |-> 72784,
       digits |-> <<"\\U00011c50", "\\U00011c51", "\\U00011c52", "\\U00011c53",
                    "\\U00011c54", "\\U00011c55", "\\U00011c56", "\\U00011c57",
                    "\\U00011c58", "\\U00011c59">>],
      [zero |-> 73040,
       digits |-> <<"\\U00011d50", "\\U00011d51", "\\U00011d52", "\\U00011d53",
                    "\\U00011d54", "\\U00011d55", "\\U00011d56", "\\U00011d57",
                    "\\U00011d58", "\\U00011d59">>],
      [zero |-> 73120,
       digits |-> <<"\\U00011da0", "\\U00011da1", "\\U00011da2", "\\U00011da3",
                    "\\U00011da4", "\\U00011da5", "\\U00011da6", "\\U00011da7",
                    "\\U00011da8", "\\U00011da9">>],
      [zero |-> 92768,
       digits |-> <<"\\U00016a60", "\\U00016a61", "\\U00016a62", "\\U00016a63",
                    "\\U00016a64", "\\U00016a65", "\\U00016a66", "\\U00016a67",
                    "\\U00016a68", "\\U00016a69">>],
      [zero |-> 92864,
       digits |-> <<"\\U00016ac0", "\\U00016ac1", "\\U00016ac2", "\\U00016ac3",
                    "\\U00016ac4", "\\U00016ac5", "\\U00016ac6", "\\U00016ac7",
                    "\\U00016ac8", "\\U00016ac9">>],
      [zero |-> 93008,
       digits |-> <<"\\U00016b50", "\\U00016b51", "\\U00016b52", "\\U00016b53",
                    "\\U00016b54", "\\U00016b55", "\\U00016b56", "\\U00016b57",
                    "\\U00016b58", "\\U00016b59">>],
      [zero |-> 120782,
       digits |-> <<"\\U0001d7ce", "\\U0001d7cf", "\\U0001d7d0", "\\U0001d7d1",
                    "\\U0001d7d2", "\\U0001d7d3", "\\U0001d7d4", "\\U0001d7d5",
                    "\\U0001d7d6", "\\U0001d7d7">>],
      [zero |-> 120792,
       digits |-> <<"\\U0001d7d8", "\\U0001d7d9", "\\U0001d7da", "\\U0001d7db",
                    "\\U0001d7dc", "\\U0001d7dd", "\\U0001d7de", "\\U0001d7df",
                    "\\U0001d7e0", "\\U0001d7e1">>],
      [zero |-> 120802,
       digits |-> <<"\\U0001d7e2", "\\U0001d7e3", "\\U0001d7e4", "\\U0001d7e5",
                    "\\U0001d7e6", "\\U0001d7e7", "\\U0001d7e8", "\\U0001d7e9",
                    "\\U0001d7ea", "\\U0001d7eb">>],
      [zero |-> 120812,
       digits |-> <<"\\U0001d7ec", "\\U0001d7ed", "\\U0001d7ee", "\\U0001d7ef",
                    "\\U0001d7f0", "\\U0001d7f1", "\\U0001d7f2", "\\U0001d7f3",
                    "\\U0001d7f4", "\\U0001d7f5">>],
      [zero |-> 120822,
       digits |-> <<"\\U0001d7f6", "\\U0001d7f7", "\\U0001d7f8", "\\U0001d7f9",
                    "\\U0001d7fa", "\\U0001d7fb", "\\U0001d7fc", "\\U0001d7fd",
                    "\\U0001d7fe", "\\U0001d7ff">>],
      [zero |-> 123200,
       digits |-> <<"\\U0001e140", "\\U0001e141", "\\U0001e142", "\\U0001e143",
                    "\\U0001e144", "\\U0001e145", "\\U0001e146", "\\U0001e147",
                    "\\U0001e148", "\\U0001e149">>],
      [zero |-> 123632,
       digits |-> <<"\\U0001e2f0", "\\U0001e2f1", "\\U0001e2f2", "\\U0001e2f3",
                    "\\U0001e2f4", "\\U0001e2f5", "\\U0001e2f6", "\\U0001e2f7",
                    "\\U0001e2f8", "\\U0001e2f9">>],
      [zero |-> 125264,
       digits |-> <<"\\U0001e950", "\\U0001e951", "\\U0001e952", "\\U0001e953",
                    "\\U0001e954", "\\U0001e955", "\\U0001e956", "\\U0001e957",
                    "\\U0001e958", "\\U0001e959">>],
      [zero |-> 130032,
       digits |-> <<"\\U0001fbf0", "\\U0001fbf1", "\\U0001fbf2", "\\U0001fbf3",
                    "\\U0001fbf4", "\\U0001fbf5", "\\U0001fbf6", "\\U0001fbf7",
                    "\\U0001fbf8", "\\U0001fbf9">>]>>

\* s without the characters of `chars` at its left end, and at its right end.
lstrip_chars(s, chars) ==
    SubSeq(s, CHOOSE k \in 1..(Len(s) + 1) :
                    /\ \A j \in 1..(k - 1) : s[j] \in chars
                    /\ (k = Len(s) + 1 \/ s[k] \notin chars),
           Len(s))

rstrip_chars(s, chars) ==
    SubSeq(s, 1, CHOOSE k \in 0..Len(s) :
                    /\ \A j \in (k + 1)..Len(s) : s[j] \in chars
                    /\ (k = 0 \/ s[k] \notin chars))

lstrip(s) == lstrip_chars(s, Whitespace)

rstrip(s) == rstrip_chars(s, Whitespace)

\* A faulty variant of strip: only the left end is trimmed.
strip_left_only(s) == lstrip(s)

strip(s) == rstrip(lstrip(s))

UpperCase == <<"A", "B", "C", "D", "E", "F", "G", "H", "I", "J", "K", "L", "M",
               "N", "O", "P", "Q", "R", "S", "T", "U", "V", "W", "X", "Y", "Z">>
LowerCase == <<"a", "b", "c", "d", "e", "f", "g", "h", "i", "j", "k", "l", "m",
               "n", "o", "p", "q", "r", "s", "t", "u", "v", "w", "x", "y", "z">>

\* The text with its letters A to Z in lower case.
lower(s) ==
    [i \in 1..Len(s) |->
        IF \E k \in 1..Len(UpperCase) : UpperCase[k] = s[i]
        THEN LowerCase[CHOOSE k \in 1..Len(UpperCase) : UpperCase[k] = s[i]]
        ELSE s[i]]

\* The place of an element in a sequence, 0 when it is not in it.
Place(seq, c) ==
    IF \E i \in 1..Len(seq) : seq[i] = c THEN CHOOSE i \in 1..Len(seq) : seq[i] = c ELSE 0

Digits == <<"0", "1", "2", "3", "4", "5", "6", "7", "8", "9">>

\* The value of a decimal digit of any script, -1 for any other character.
DigitValue(c) ==
    IF Place(Digits, c) > 0 THEN Place(Digits, c) - 1
    ELSE IF Place(Ascii, c) > 0 THEN -1
    ELSE IF \E r \in 1..Len(DigitRows) : Place(DigitRows[r].digits, c) > 0
         THEN Place(DigitRows[CHOOSE r \in 1..Len(DigitRows) :
                                    Place(DigitRows[r].digits, c) > 0].digits, c) - 1
         ELSE -1

\* ord(c): the code point of a character.
ord(c) ==
    IF Place(Ascii, c) > 0 THEN Place(Ascii, c) - 1
    ELSE IF \E i \in 1..Len(Spaces) : Spaces[i][1] = c
         THEN Spaces[CHOOSE i \in 1..Len(Spaces) : Spaces[i][1] = c][2]
         ELSE DigitRows[CHOOSE r \in 1..Len(DigitRows) :
                            Place(DigitRows[r].digits, c) > 0].zero + DigitValue(c)

\* a < b on Python strings.
RECURSIVE StrLess(_, _)
StrLess(a, b) ==
    IF b = <<>> THEN FALSE
    ELSE IF a = <<>> THEN TRUE
    ELSE IF Head(a) = Head(b) THEN StrLess(Tail(a), Tail(b))
    ELSE ord(Head(a)) < ord(Head(b))

\* ------------------------------------------------------------------- naturals
\* A natural number of any size is the sequence of its digits to the base 2^15, the
\* lowest first and the highest not 0; <<>> is 0.
Base == 2 ^ 15

Abs(x) == IF x < 0 THEN -x ELSE x
Max(x, y) == IF x < y THEN y ELSE x
Min(x, y) == IF x < y THEN x ELSE y

Limb(a, i) == IF i <= Len(a) THEN a[i] ELSE 0

Trim(a) ==
    SubSeq(a, 1, CHOOSE k \in 0..Len(a) :
                    (k = 0 \/ a[k] # 0) /\ \A j \in (k + 1)..Len(a) : a[j] = 0)

BigOfInt(n) ==
    IF n = 0 THEN <<>>
    ELSE IF n < Base THEN <<n>>
    ELSE IF n < Base * Base THEN <<n % Base, n \div Base>>
    ELSE <<n % Base, (n \div Base) % Base, n \div (Base * Base)>>

IntOfBig(a) == Limb(a, 1) + Base * Limb(a, 2) + Base * Base * Limb(a, 3)

\* a + b: the digits lo..hi are added with the carry of the digits below them.
RECURSIVE AddRange(_, _, _, _, _)
AddJoin(low, high) == [limbs |-> low.limbs \o high.limbs, carry |-> high.carry]
AddHigh(a, b, mid, hi, low) == AddJoin(low, AddRange(a, b, mid + 1, hi, low.carry))
AddRange(a, b, lo, hi, carry) ==
    IF lo = hi
    THEN [limbs |-> <<(Limb(a, lo) + Limb(b, lo) + carry) % Base>>,
          carry |-> (Limb(a, lo) + Limb(b, lo) + carry) \div Base]
    ELSE AddHigh(a, b, (lo + hi) \div 2, hi, AddRange(a, b, lo, (lo + hi) \div 2, carry))

AddCarry(sum) == IF sum.carry = 0 THEN sum.limbs ELSE Append(sum.limbs, sum.carry)

BigAdd(a, b) ==
    IF a = <<>> /\ b = <<>> THEN <<>>
    ELSE Trim(AddCarry(AddRange(a, b, 1, Max(Len(a), Len(b)), 0)))

\* a - b for a >= b.
RECURSIVE SubRange(_, _, _, _, _)
SubJoin(low, high) == [limbs |-> low.limbs \o high.limbs, borrow |-> high.borrow]
SubHigh(a, b, mid, hi, low) == SubJoin(low, SubRange(a, b, mid + 1, hi, low.borrow))
SubRange(a, b, lo, hi, borrow) ==
    IF lo = hi
    THEN [limbs |-> <<(Limb(a, lo) - Limb(b, lo) - borrow + Base) % Base>>,
          borrow |-> IF Limb(a, lo) - Limb(b, lo) - borrow < 0 THEN 1 ELSE 0]
    ELSE SubHigh(a, b, (lo + hi) \div 2, hi, SubRange(a, b, lo, (lo + hi) \div 2, borrow))

BigSub(a, b) == IF a = <<>> THEN <<>> ELSE Trim(SubRange(a, b, 1, Len(a), 0).limbs)

BigLess(a, b) ==
    \/ Len(a) < Len(b)
    \/ /\ Len(a) = Len(b)
       /\ \E i \in 1..Len(a) : a[i] < b[i] /\ \A j \in (i + 1)..Len(a) : a[j] = b[j]

\* a * m for a digit m.
MulSmall(a, m) ==
    IF a = <<>> \/ m = 0 THEN <<>>
    ELSE Trim(AddCarry(AddRange([i \in 1..Len(a) |-> (a[i] * m) % Base],
                                [i \in 1..(Len(a) + 1) |->
                                    IF i = 1 THEN 0 ELSE (a[i - 1] * m) \div Base],
                                1, Len(a) + 1, 0)))

\* a * Base^k.
ShiftLimbs(a, k) == IF a = <<>> THEN <<>> ELSE [i \in 1..k |-> 0] \o a

RECURSIVE BigMul(_, _)
BigMul(a, b) ==
    IF a = <<>> \/ b = <<>> THEN <<>>
    ELSE IF Len(b) = 1 THEN MulSmall(a, b[1])
    ELSE BigAdd(BigMul(a, SubSeq(b, 1, Len(b) \div 2)),
                ShiftLimbs(BigMul(a, SubSeq(b, Len(b) \div 2 + 1, Len(b))), Len(b) \div 2))

LimbBits == 15

\* a * 2^bits and a \div 2^bits.
Shl(a, bits) == ShiftLimbs(MulSmall(a, 2 ^ (bits % LimbBits)), bits \div LimbBits)

Shr(a, bits) ==
    IF Len(a) <= bits \div LimbBits THEN <<>>
    ELSE Trim([i \in 1..(Len(a) - bits \div LimbBits) |->
                (a[i + bits \div LimbBits] \div (2 ^ (bits % LimbBits)))
                + (Limb(a, i + bits \div LimbBits + 1) % (2 ^ (bits % LimbBits)))
                  * (2 ^ (LimbBits - (bits % LimbBits)))])

\* The bit of weight 2^pos, and whether the bits below 2^bits are all 0.
BitAt(a, pos) == (Limb(a, pos \div LimbBits + 1) \div (2 ^ (pos % LimbBits))) % 2

LowZero(a, bits) ==
    /\ \A i \in 1..(bits \div LimbBits) : Limb(a, i) = 0
    /\ Limb(a, bits \div LimbBits + 1) % (2 ^ (bits % LimbBits)) = 0

\* The number of bits of a.
BitLen(a) ==
    IF a = <<>> THEN 0
    ELSE LimbBits * (Len(a) - 1)
         + (CHOOSE k \in 1..LimbBits : (2 ^ (k - 1)) <= a[Len(a)] /\ a[Len(a)] < (2 ^ k))

\* a \div m and a % m for a digit m > 0: the digits hi..lo are divided with the rest
\* of the digits above them; `digits` holds the digits of the quotient, the highest
\* first.
Reverse(s) == [i \in 1..Len(s) |-> s[Len(s) + 1 - i]]

RECURSIVE DivSmallRange(_, _, _, _, _)
DivJoin(high, low) == [digits |-> high.digits \o low.digits, rest |-> low.rest]
DivSmallLow(a, m, lo, mid, high) ==
    DivJoin(high, DivSmallRange(a, m, lo, mid, high.rest))
DivSmallRange(a, m, lo, hi, rest) ==
    IF lo = hi
    THEN [digits |-> <<(rest * Base + a[lo]) \div m>>, rest |-> (rest * Base + a[lo]) % m]
    ELSE DivSmallLow(a, m, lo, (lo + hi) \div 2,
                     DivSmallRange(a, m, (lo + hi) \div 2 + 1, hi, rest))

Quotient(r) == [quot |-> Trim(Reverse(r.digits)), rest |-> r.rest]

DivSmall(a, m) ==
    IF a = <<>> THEN [quot |-> <<>>, rest |-> 0]
    ELSE Quotient(DivSmallRange(a, m, 1, Len(a), 0))

\* The greatest digit d in lo..hi with d * b <= cur.
RECURSIVE FindDigit(_, _, _, _)
FindDigit(cur, b, lo, hi) ==
    IF lo = hi THEN lo
    ELSE IF BigLess(cur, MulSmall(b, (lo + hi + 1) \div 2))
         THEN FindDigit(cur, b, lo, (lo + hi + 1) \div 2 - 1)
         ELSE FindDigit(cur, b, (lo + hi + 1) \div 2, hi)

\* One digit of the long division by b: cur is the rest so far with the next digit
\* of the dividend behind it.
DivDigit(cur, b, d) == [digits |-> <<d>>, rest |-> BigSub(cur, MulSmall(b, d))]

DivStep(cur, b) ==
    IF BigLess(cur, b) THEN [digits |-> <<0>>, rest |-> cur]
    ELSE DivDigit(cur, b, FindDigit(cur, b, 1, Base - 1))

RECURSIVE DivRange(_, _, _, _, _)
DivLow(a, b, lo, mid, high) == DivJoin(high, DivRange(a, b, lo, mid, high.rest))
DivRange(a, b, lo, hi, rest) ==
    IF lo = hi THEN DivStep(Trim(<<a[lo]>> \o rest), b)
    ELSE DivLow(a, b, lo, (lo + hi) \div 2, DivRange(a, b, (lo + hi) \div 2 + 1, hi, rest))

\* a \div b and a % b for b > 0.
BigDivMod(a, b) ==
    IF a = <<>> THEN [quot |-> <<>>, rest |-> <<>>]
    ELSE Quotient(DivRange(a, b, 1, Len(a), <<>>))

\* 10^k.
RECURSIVE Pow10(_)
PowJoin(half, odd) ==
    IF odd THEN MulSmall(BigMul(half, half), 10) ELSE BigMul(half, half)
Pow10(k) == IF k < 5 THEN BigOfInt(10 ^ k) ELSE PowJoin(Pow10(k \div 2), k % 2 = 1)

\* The number written with the decimal digits ds (numbers 0..9).
RECURSIVE SmallOfDigits(_, _)
SmallOfDigits(ds, acc) ==
    IF ds = <<>> THEN acc ELSE SmallOfDigits(Tail(ds), 10 * acc + Head(ds))

RECURSIVE BigOfDigits(_)
BigOfDigits(ds) ==
    IF Len(ds) <= 9 THEN BigOfInt(SmallOfDigits(ds, 0))
    ELSE BigAdd(BigMul(BigOfDigits(SubSeq(ds, 1, Len(ds) \div 2)),
                       Pow10(Len(ds) - Len(ds) \div 2)),
                BigOfDigits(SubSeq(ds, Len(ds) \div 2 + 1, Len(ds))))

\* --------------------------------------------------------------------- floats
\* A float is [units |-> u], the number u / Unit, when it is such a number with
\* |u| < MaxUnits; else [sign |-> s, mant |-> m, exp |-> e], the number s * m * 2^e
\* with m of 53 bits, or of fewer bits and e = MinExp; or [special |-> ...], one of
\* "inf", "-inf", "nan" and "-0.0".
Unit == 2 ^ 8
UnitBits == 8
MaxUnits == 2 ^ 30
MantissaBits == 53
MinExp == -1074
MaxBits == 1024

Exact(u) == [units |-> u]
NaN == [special |-> "nan"]
Inf(sign) == [special |-> IF sign < 0 THEN "-inf" ELSE "inf"]
Zero(sign) == IF sign < 0 THEN [special |-> "-0.0"] ELSE [units |-> 0]

IsSpecial(x) == "special" \in DOMAIN x
IsUnits(x) == "units" \in DOMAIN x
IsNaN(x) == IsSpecial(x) /\ x.special = "nan"
IsInf(x) == IsSpecial(x) /\ x.special \in {"inf", "-inf"}
IsZero(x) == (IsSpecial(x) /\ x.special = "-0.0") \/ (IsUnits(x) /\ x.units = 0)

SignOf(x) ==
    IF IsSpecial(x) THEN (IF x.special \in {"-inf", "-0.0"} THEN -1 ELSE 1)
    ELSE IF IsUnits(x) THEN (IF x.units < 0 THEN -1 ELSE 1)
    ELSE x.sign

\* A finite float is SignOf * Mant * 2^Exp.
Mant(x) == IF IsUnits(x) THEN BigOfInt(Abs(x.units)) ELSE x.mant
Exp(x) == IF IsUnits(x) THEN -UnitBits ELSE x.exp

\* m / 2^shift, shift > 0, rounded to the nearest integer, a tie to the even one;
\* `inexact` says that m stands for a number slightly greater than m.
RoundShift(m, shift, inexact) ==
    IF BitAt(m, shift - 1) = 1
       /\ (inexact \/ ~LowZero(m, shift - 1) \/ BitAt(m, shift) = 1)
    THEN BigAdd(Shr(m, shift), <<1>>)
    ELSE Shr(m, shift)

\* The float of value sign * q * 2^e, q having at most 53 bits, or being 2^53.
FitsUnits(q, e) ==
    IF e + UnitBits >= 0 THEN BitLen(q) + e + UnitBits <= 30
    ELSE LowZero(q, -(e + UnitBits)) /\ BitLen(q) + e + UnitBits <= 30

UnitsOf(q, e) ==
    IntOfBig(IF e + UnitBits >= 0 THEN Shl(q, e + UnitBits) ELSE Shr(q, -(e + UnitBits)))

Pack(sign, q, e) ==
    IF q = <<>> THEN Zero(sign)
    ELSE IF e + BitLen(q) > MaxBits THEN Inf(sign)
    ELSE IF FitsUnits(q, e) THEN [units |-> sign * UnitsOf(q, e)]
    ELSE IF BitLen(q) > MantissaBits THEN [sign |-> sign, mant |-> Shr(q, 1), exp |-> e + 1]
    ELSE [sign |-> sign, mant |-> q, exp |-> e]

\* The float nearest to sign * m * 2^e, a tie going to the even mantissa; with
\* `inexact` the number is slightly greater than m * 2^e and m has 55 bits or more.
RoundAt(sign, m, e, last, inexact) ==
    Pack(sign, IF last <= e THEN Shl(m, e - last) ELSE RoundShift(m, last - e, inexact), last)

RoundToFloat(sign, m, e, inexact) ==
    IF m = <<>> THEN Zero(sign)
    ELSE RoundAt(sign, m, e, Max(e + BitLen(m) - MantissaBits, MinExp), inexact)

\* float(n) of an integer n.
FromInt(n) ==
    IF Abs(n) < 2 ^ 22 THEN [units |-> Unit * n]
    ELSE RoundToFloat(IF n < 0 THEN -1 ELSE 1, BigOfInt(Abs(n)), 0, FALSE)

\* x * y.
FloatMul(x, y) ==
    IF IsNaN(x) \/ IsNaN(y) THEN NaN
    ELSE IF IsInf(x) \/ IsInf(y)
         THEN (IF IsZero(x) \/ IsZero(y) THEN NaN ELSE Inf(SignOf(x) * SignOf(y)))
    ELSE IF IsZero(x) \/ IsZero(y) THEN Zero(SignOf(x) * SignOf(y))
    ELSE RoundToFloat(SignOf(x) * SignOf(y), BigMul(Mant(x), Mant(y)), Exp(x) + Exp(y), FALSE)

\* n * x for an integer n.
IntTimes(n, x) ==
    IF IsUnits(x) /\ n # 0 /\ x.units # 0 /\ Abs(n) < Base /\ Abs(x.units) < Base
    THEN [units |-> n * x.units]
    ELSE FloatMul(FromInt(n), x)

\* The sum of the finite floats sx * mx * 2^e and sy * my * 2^e.
AddAligned(sx, mx, sy, my, e) ==
    IF sx = sy THEN RoundToFloat(sx, BigAdd(mx, my), e, FALSE)
    ELSE IF mx = my THEN Zero(1)
    ELSE IF BigLess(mx, my) THEN RoundToFloat(sy, BigSub(my, mx), e, FALSE)
    ELSE RoundToFloat(sx, BigSub(mx, my), e, FALSE)

AddFinite(x, y, e) ==
    AddAligned(SignOf(x), Shl(Mant(x), Exp(x) - e), SignOf(y), Shl(Mant(y), Exp(y) - e), e)

\* x + y.
FloatAdd(x, y) ==
    IF IsUnits(x) /\ IsUnits(y) /\ Abs(x.units + y.units) < MaxUnits
    THEN [units |-> x.units + y.units]
    ELSE IF IsNaN(x) \/ IsNaN(y) THEN NaN
    ELSE IF IsInf(x) THEN (IF IsInf(y) /\ SignOf(x) # SignOf(y) THEN NaN ELSE x)
    ELSE IF IsInf(y) THEN y
    ELSE IF IsZero(x) /\ IsZero(y) THEN Zero(IF SignOf(x) < 0 /\ SignOf(y) < 0 THEN -1 ELSE 1)
    ELSE IF IsZero(x) THEN y
    ELSE IF IsZero(y) THEN x
    ELSE AddFinite(x, y, Min(Exp(x), Exp(y)))

\* The quotient of the naturals m * 2^k and d, k being such that it has 55 bits or
\* more, as a float.
DivRounded(sign, t, e) == RoundToFloat(sign, t.quot, e, t.rest # <<>>)

DivScaled(sign, m, d, e, k) == DivRounded(sign, BigDivMod(Shl(m, k), d), e - k)

\* x / y for y # 0.
FloatDiv(x, y) ==
    IF IsNaN(x) \/ IsNaN(y) THEN NaN
    ELSE IF IsInf(x) THEN (IF IsInf(y) THEN NaN ELSE Inf(SignOf(x) * SignOf(y)))
    ELSE IF IsInf(y) \/ IsZero(x) THEN Zero(SignOf(x) * SignOf(y))
    ELSE DivScaled(SignOf(x) * SignOf(y), Mant(x), Mant(y), Exp(x) - Exp(y),
                   Max(0, BitLen(Mant(y)) + MantissaBits + 2 - BitLen(Mant(x))))

\* |x| < |y| for finite floats that are not 0.
MagLess(x, y) ==
    BigLess(Shl(Mant(x), Exp(x) - Min(Exp(x), Exp(y))),
            Shl(Mant(y), Exp(y) - Min(Exp(x), Exp(y))))

\* The place of a float among the negative numbers, 0 and the positive numbers.
Side(x) == IF IsZero(x) THEN 0 ELSE SignOf(x)

\* x < y.
FloatLess(x, y) ==
    IF IsUnits(x) /\ IsUnits(y) THEN x.units < y.units
    ELSE IF IsNaN(x) \/ IsNaN(y) THEN FALSE
    ELSE IF Side(x) # Side(y) THEN Side(x) < Side(y)
    ELSE IF Side(x) = 0 THEN FALSE
    ELSE IF IsInf(x) \/ IsInf(y) THEN (IF Side(x) > 0 THEN ~IsInf(x) ELSE ~IsInf(y))
    ELSE IF Side(x) > 0 THEN MagLess(x, y)
    ELSE MagLess(y, x)

\* x == y and x <= y.
FloatEq(x, y) == ~IsNaN(x) /\ ~IsNaN(y) /\ ~FloatLess(x, y) /\ ~FloatLess(y, x)
FloatLessEq(x, y) == FloatLess(x, y) \/ FloatEq(x, y)

\* ------------------------------------------------------------ decimal to float
\* The float nearest to sign * d * 10^e for a natural d.  d < 2^BitLen(d) and
\* 2^10 < 10^3.02, so a number with BitLen(d) * 302 \div 1000 + e < -325 is less
\* than half the least float; a number with e > 310 is more than the greatest.
DecimalQuotient(sign, d, den) ==
    DivScaled(sign, d, den, 0, Max(0, BitLen(den) + MantissaBits + 2 - BitLen(d)))

DecimalToFloat(sign, d, e) ==
    IF d = <<>> THEN Zero(sign)
    ELSE IF e > 310 THEN Inf(sign)
    ELSE IF (BitLen(d) * 302) \div 1000 + 1 + e < -325 THEN Zero(sign)
    ELSE IF e >= 0 THEN RoundToFloat(sign, BigMul(d, Pow10(e)), 0, FALSE)
    ELSE DecimalQuotient(sign, d, Pow10(-e))

\* ------------------------------------------------------------- int() and float()
\* The whitespace that int() and float() skip at the ends of a text: they do not
\* skip the separators \x1c to \x1f.
NumberSpace == Whitespace \ {"\\x1c", "\\x1d", "\\x1e", "\\x1f"}

strip_number(s) == rstrip_chars(lstrip_chars(s, NumberSpace), NumberSpace)

\* Digits that may be grouped by single underscores, as int() and float() read them.
DigitString(s) ==
    /\ s # <<>>
    /\ \A i \in 1..Len(s) :
        \/ DigitValue(s[i]) >= 0
        \/ s[i] = "_" /\ 1 < i /\ i < Len(s)
           /\ DigitValue(s[i - 1]) >= 0 /\ DigitValue(s[i + 1]) >= 0

\* The values of the digits of a digit string.
DigitsOf(s) ==
    [i \in 1..Len(SelectSeq(s, LAMBDA c : c # "_")) |->
        DigitValue(SelectSeq(s, LAMBDA c : c # "_")[i])]

\* Digits without the zeros that lead them.
StripZeros(ds) ==
    SubSeq(ds, CHOOSE k \in 1..(Len(ds) + 1) :
                    /\ \A j \in 1..(k - 1) : ds[j] = 0
                    /\ (k = Len(ds) + 1 \/ ds[k] # 0),
           Len(ds))

IsSigned(t) == t # <<>> /\ t[1] \in {"+", "-"}
SignIn(t) == IF t # <<>> /\ t[1] = "-" THEN -1 ELSE 1
Unsigned(t) == IF IsSigned(t) THEN Tail(t) ELSE t

\* int(s): None when it raises ValueError, else Some of the number.
int(s) ==
    IF DigitString(Unsigned(strip_number(s)))
    THEN Some(SignIn(strip_number(s))
              * SmallOfDigits(StripZeros(DigitsOf(Unsigned(strip_number(s)))), 0))
    ELSE None

\* The exponent of a float literal; one of more than 6 digits is beyond every float.
MaxExponent == 10 ^ 6
ExponentValue(ds) == IF Len(ds) > 6 THEN MaxExponent ELSE SmallOfDigits(ds, 0)
ExponentOf(t) ==
    IF t = None THEN 0
    ELSE SignIn(t[1]) * ExponentValue(StripZeros(DigitsOf(Unsigned(t[1]))))

\* The text before the first "e" or "E", and None or Some of the text behind it.
ExponentAt(s) ==
    IF \E i \in 1..Len(s) : s[i] \in {"e", "E"}
    THEN CHOOSE i \in 1..Len(s) : s[i] \in {"e", "E"} /\ \A j \in 1..(i - 1) : s[j] \notin {"e", "E"}
    ELSE 0
Significand(s) == IF ExponentAt(s) = 0 THEN s ELSE SubSeq(s, 1, ExponentAt(s) - 1)
ExponentPart(s) ==
    IF ExponentAt(s) = 0 THEN None ELSE Some(SubSeq(s, ExponentAt(s) + 1, Len(s)))

\* A decimal literal: digits with at most one point and at least one digit, and
\* behind an "e" a signed digit string.
DecimalLiteral(parts, exponent) ==
    /\ Len(parts) <= 2
    /\ \A i \in 1..Len(parts) : parts[i] = <<>> \/ DigitString(parts[i])
    /\ \E i \in 1..Len(parts) : parts[i] # <<>>
    /\ exponent = None \/ DigitString(Unsigned(exponent[1]))

\* The float of a decimal literal with the digits `whole` before the point and
\* `fraction` behind it.
DecimalValue(sign, whole, fraction, exponent) ==
    DecimalToFloat(sign, BigOfDigits(StripZeros(whole \o fraction)),
                   ExponentOf(exponent) - Len(fraction))

FloatOfParts(sign, parts, exponent) ==
    IF DecimalLiteral(parts, exponent)
    THEN Some(DecimalValue(sign, DigitsOf(parts[1]),
                           IF Len(parts) = 2 THEN DigitsOf(parts[2]) ELSE <<>>, exponent))
    ELSE None

FloatOfBody(sign, body) ==
    IF lower(body) \in {<<"i", "n", "f">>, <<"i", "n", "f", "i", "n", "i", "t", "y">>}
    THEN Some(Inf(sign))
    ELSE IF lower(body) = <<"n", "a", "n">> THEN Some(NaN)
    ELSE FloatOfParts(sign, split(Significand(body), "."), ExponentPart(body))

\* float(s): None when it raises ValueError, else Some of the float.
float(s) == FloatOfBody(SignIn(strip_number(s)), Unsigned(strip_number(s)))

\* --------------------------------------------------------------------- round()
\* A float rounded to 2 decimals is [hundredths |-> h], the float nearest to
\* h / 100, when |h| < MaxUnits; else [sign |-> s, mag |-> m], the float nearest to
\* s * m / 100; or [special |-> ...] as a float.
RoundHalfEven(num, den) ==
    IF 2 * (num % den) < den THEN num \div den
    ELSE IF 2 * (num % den) > den THEN num \div den + 1
    ELSE IF (num \div den) % 2 = 0 THEN num \div den ELSE num \div den + 1

Rounded(sign, h) ==
    IF h = <<>> THEN (IF sign < 0 THEN [special |-> "-0.0"] ELSE [hundredths |-> 0])
    ELSE IF BitLen(h) <= 30 THEN [hundredths |-> sign * IntOfBig(h)]
    ELSE [sign |-> sign, mag |-> h]

\* round(x, 2): the hundredth nearest to the number that the float holds, a tie
\* going to the even one.
round2(x) ==
    IF IsSpecial(x) THEN x
    ELSE IF IsUnits(x) /\ Abs(x.units) < 2 ^ 24
         THEN Rounded(SignOf(x), BigOfInt(RoundHalfEven(100 * Abs(x.units), Unit)))
    ELSE IF Exp(x) >= 0 THEN Rounded(SignOf(x), Shl(MulSmall(Mant(x), 100), Exp(x)))
    ELSE Rounded(SignOf(x), RoundShift(MulSmall(Mant(x), 100), -Exp(x), FALSE))

IsHundredths(r) == "hundredths" \in DOMAIN r
RoundedSign(r) ==
    IF IsSpecial(r) THEN SignOf(r)
    ELSE IF IsHundredths(r) THEN (IF r.hundredths < 0 THEN -1 ELSE 1)
    ELSE r.sign
RoundedMag(r) == IF IsHundredths(r) THEN BigOfInt(Abs(r.hundredths)) ELSE r.mag
RoundedSide(r) ==
    IF IsSpecial(r) THEN Side(r)
    ELSE IF IsHundredths(r) /\ r.hundredths = 0 THEN 0
    ELSE RoundedSign(r)

\* a < b on rounded floats.
RoundedLess(a, b) ==
    IF IsHundredths(a) /\ IsHundredths(b) THEN a.hundredths < b.hundredths
    ELSE IF IsNaN(a) \/ IsNaN(b) THEN FALSE
    ELSE IF RoundedSide(a) # RoundedSide(b) THEN RoundedSide(a) < RoundedSide(b)
    ELSE IF RoundedSide(a) = 0 THEN FALSE
    ELSE IF IsSpecial(a) \/ IsSpecial(b)
         THEN (IF RoundedSide(a) > 0 THEN ~IsSpecial(a) ELSE ~IsSpecial(b))
    ELSE IF RoundedSide(a) > 0 THEN BigLess(RoundedMag(a), RoundedMag(b))
    ELSE BigLess(RoundedMag(b), RoundedMag(a))

\* The float that a rounded float is.
FloatOfRounded(r) ==
    IF IsSpecial(r) THEN r ELSE DecimalToFloat(RoundedSign(r), RoundedMag(r), -2)

\* ------------------------------------------------------------------ formatting
\* str(n) of an integer n >= 0.
RECURSIVE IntText(_)
IntText(n) ==
    IF n < 10 THEN <<Digits[n + 1]>>
    ELSE IntText(n \div 10) \o <<Digits[(n % 10) + 1]>>

ThreeDigits(n) ==
    <<Digits[(n \div 100) + 1], Digits[((n % 100) \div 10) + 1], Digits[(n % 10) + 1]>>

\* f"{n:,}" of a natural n: the digits in groups of three.
RECURSIVE Grouped(_)
GroupedRest(t) == Grouped(t.quot) \o <<",">> \o ThreeDigits(t.rest)
Grouped(n) ==
    IF Len(n) <= 1 /\ IntOfBig(n) < 1000 THEN IntText(IntOfBig(n))
    ELSE GroupedRest(DivSmall(n, 1000))

Fmt2Parts(sign, t) ==
    (IF sign < 0 THEN <<"-">> ELSE <<>>) \o Grouped(t.quot)
    \o <<".", Digits[(t.rest \div 10) + 1], Digits[(t.rest % 10) + 1]>>

\* f"{x:,.2f}" of a float x that rounds to r.
Fmt2(r) ==
    IF IsSpecial(r)
    THEN (IF r.special = "-0.0" THEN <<"-", "0", ".", "0", "0">>
          ELSE IF r.special = "nan" THEN <<"n", "a", "n">>
          ELSE IF r.special = "inf" THEN <<"i", "n", "f">>
          ELSE <<"-", "i", "n", "f">>)
    ELSE Fmt2Parts(RoundedSign(r), DivSmall(RoundedMag(r), 100))

\* --------------------------------------------------------------------- sorting
\* list.sort() of fewer than 64 entries, each with its `key`, as CPython does it.
\* ISLT is the comparison of two keys of one kind.
ISLT(kind, a, b) ==
    IF kind = "float" THEN RoundedLess(a, b)
    ELSE IF kind = "str" THEN StrLess(a, b)
    ELSE a < b

\* count_run: the length of the run that begins the list, n >= 2 entries of it
\* being known; a descending run is strictly descending.
RECURSIVE count_run(_, _, _, _)
count_run(kind, list, n, descending) ==
    IF n < Len(list) /\ ISLT(kind, list[n + 1].key, list[n].key) = descending
    THEN count_run(kind, list, n + 1, descending)
    ELSE n

\* binarysort: where the pivot goes among the sorted entries l..r-1.
RECURSIVE bisect(_, _, _, _, _)
bisect(kind, list, pivot, l, r) ==
    IF l >= r THEN l
    ELSE IF ISLT(kind, pivot, list[l + (r - l) \div 2].key)
         THEN bisect(kind, list, pivot, l, l + (r - l) \div 2)
         ELSE bisect(kind, list, pivot, l + (r - l) \div 2 + 1, r)

\* The list with its entry `from` moved down to the place `to`.
MoveTo(list, from, to) ==
    [i \in 1..Len(list) |->
        IF i < to \/ i > from THEN list[i]
        ELSE IF i = to THEN list[from]
        ELSE list[i - 1]]

RECURSIVE binarysort(_, _, _)
binarysort(kind, list, start) ==
    IF start > Len(list) THEN list
    ELSE binarysort(kind,
                    MoveTo(list, start, bisect(kind, list, list[start].key, 1, start)),
                    start + 1)

\* The list with its first n entries reversed when the run is descending.
RunAscending(list, n, descending) ==
    IF descending THEN Reverse(SubSeq(list, 1, n)) \o SubSeq(list, n + 1, Len(list))
    ELSE list

SortRun(kind, list, n, descending) ==
    binarysort(kind, RunAscending(list, n, descending), n + 1)

SortAscending(kind, list) ==
    IF Len(list) < 2 THEN list
    ELSE SortRun(kind, list,
                 count_run(kind, list, 2, ISLT(kind, list[2].key, list[1].key)),
                 ISLT(kind, list[2].key, list[1].key))

\* sorted(list, key=..., reverse=...): with reverse the list is reversed before the
\* sort and after it, which keeps the entries of equal keys in their order.
sorted(kind, list, reverse) ==
    IF reverse THEN Reverse(SortAscending(kind, Reverse(list)))
    ELSE SortAscending(kind, list)

\* The entries of a list with the key of each, as sorted() pairs them, and back.
Keyed(items, key) == [i \in 1..Len(items) |-> [key |-> key[i], item |-> items[i]]]
Items(list) == [i \in 1..Len(list) |-> list[i].item]

\* -------------------------------------------------------------- read_sales_data
\* The file is None when it is missing or cannot be decoded, else Some of the lines
\* that readlines() returns.
\* [line.strip() for line in lines if line.strip()]
CleanedLines(lines) ==
    SelectSeq([i \in 1..Len(lines) |-> strip(lines[i])], LAMBDA line : line # <<>>)

\* cleaned_lines[1:] if cleaned_lines else []
WithoutHeader(cleaned_lines) == IF cleaned_lines # <<>> THEN Tail(cleaned_lines) ELSE <<>>

read_sales_data(file) ==
    IF file = None THEN <<>> ELSE WithoutHeader(CleanedLines(file[1]))

\* ---------------------------------------------------------- parse_transactions
\* The number of fields of a line.
FieldCount == 8

\* The transaction of the 8 fields of a line, clean_qty and clean_price being None
\* when int() or float() raised ValueError: the line is skipped then.
ParsedFields(fields, clean_p_name, clean_qty, clean_price) ==
    IF clean_qty = None \/ clean_price = None THEN None
    ELSE Some([TransactionID |-> strip(fields[1]),
               Date |-> strip(fields[2]),
               ProductID |-> strip(fields[3]),
               ProductName |-> strip(clean_p_name),
               Quantity |-> clean_qty[1],
               UnitPrice |-> clean_price[1],
               CustomerID |-> strip(fields[7]),
               Region |-> strip(fields[8])])

\* A faulty variant of ParseLine: the commas stay in the numeric fields.
ParseLineKeepingCommas(line) ==
    IF Len(split(line, "|")) # FieldCount THEN None
    ELSE ParsedFields(split(line, "|"),
                      replace(split(line, "|")[4], ",", <<" ">>),
                      int(split(line, "|")[5]),
                      float(split(line, "|")[6]))

\* The body of the loop of parse_transactions: None when the line is skipped, else
\* Some of the transaction.
ParseLine(line) ==
    IF Len(split(line, "|")) # FieldCount THEN None
    ELSE ParsedFields(split(line, "|"),
                      replace(split(line, "|")[4], ",", <<" ">>),
                      int(replace(split(line, "|")[5], ",", <<>>)),
                      float(replace(split(line, "|")[6], ",", <<>>)))

\* parsed.append(...) when the line made a transaction.
Appended(parsed, transaction) ==
    IF transaction = None THEN parsed ELSE Append(parsed, transaction[1])

RECURSIVE ParseLoop(_, _)
ParseLoop(raw_lines_, parsed) ==
    IF raw_lines_ = <<>> THEN parsed
    ELSE ParseLoop(Tail(raw_lines_), Appended(parsed, ParseLine(Head(raw_lines_))))

parse_transactions(raw_lines_) == ParseLoop(raw_lines_, <<>>)

\* ------------------------------------------------------- validate_and_filter
startswith(s, c) == Len(s) > 0 /\ s[1] = c

required_fields ==
    <<"TransactionID", "Date", "ProductID", "ProductName", "CustomerID", "Region">>

\* A faulty variant of is_valid: the prefix rule of CustomerID is left out.
is_valid_no_customer_prefix(t) ==
    /\ ~(t.Quantity <= 0)
    /\ ~FloatLessEq(t.UnitPrice, Exact(0))
    /\ \A i \in 1..Len(required_fields) : t[required_fields[i]] # Empty
    /\ startswith(t.TransactionID, "T")
    /\ startswith(t.ProductID, "P")

\* The flag is_valid of one pass of the validation loop: it starts TRUE and
\* every failed rule clears it.
is_valid(t) ==
    /\ ~(t.Quantity <= 0)
    /\ ~FloatLessEq(t.UnitPrice, Exact(0))
    /\ \A i \in 1..Len(required_fields) : t[required_fields[i]] # Empty
    /\ startswith(t.TransactionID, "T")
    /\ startswith(t.ProductID, "P")
    /\ startswith(t.CustomerID, "C")

RECURSIVE ValidationLoop(_, _, _)
ValidationLoop(ts, temp_valid_transactions, invalid_count) ==
    IF ts = <<>>
    THEN [temp_valid_transactions |-> temp_valid_transactions,
          invalid_count |-> invalid_count]
    ELSE IF is_valid(Head(ts))
         THEN ValidationLoop(Tail(ts), Append(temp_valid_transactions, Head(ts)),
                             invalid_count)
         ELSE ValidationLoop(Tail(ts), temp_valid_transactions, invalid_count + 1)

\* t['Quantity'] * t['UnitPrice']
Amount(t) == IntTimes(t.Quantity, t.UnitPrice)

\* `if region:` : None and the empty string are both false.
RegionGiven(region) == region # None /\ region[1] # Empty

\* A faulty variant of RegionFilter: the comparison ignores case.
RegionFilterIgnoreCase(current_transactions, region) ==
    LET Keep(t) == lower(t.Region) = lower(region[1])
    IN  SelectSeq(current_transactions, Keep)

RegionFilter(current_transactions, region) ==
    LET Keep(t) == t.Region = region[1]
    IN  SelectSeq(current_transactions, Keep)

\* A faulty variant of passed: the lower bound is exclusive.
passed_exclusive_min(amount, min_amount, max_amount) ==
    /\ ~(min_amount # None /\ FloatLessEq(amount, min_amount[1]))
    /\ ~(max_amount # None /\ FloatLess(max_amount[1], amount))

passed(amount, min_amount, max_amount) ==
    /\ ~(min_amount # None /\ FloatLess(amount, min_amount[1]))
    /\ ~(max_amount # None /\ FloatLess(max_amount[1], amount))

AmountFilter(current_transactions, min_amount, max_amount) ==
    LET Keep(t) == passed(Amount(t), min_amount, max_amount)
    IN  SelectSeq(current_transactions, Keep)

\* A faulty variant of validate_and_filter: filtered_by_amount is counted from the
\* whole valid set instead of the output of the region filter.
validate_and_filter_amount_from_valid(ts, region, min_amount, max_amount) ==
    LET v == ValidationLoop(ts, <<>>, 0)
        temp_valid_transactions == v.temp_valid_transactions
        after_region ==
            IF RegionGiven(region)
            THEN RegionFilter(temp_valid_transactions, region)
            ELSE temp_valid_transactions
        amount_given == min_amount # None \/ max_amount # None
        after_amount ==
            IF amount_given
            THEN AmountFilter(after_region, min_amount, max_amount)
            ELSE after_region
    IN  [records |-> after_amount,
         invalid_count |-> v.invalid_count,
         filter_summary |->
            [total_input |-> Len(ts),
             invalid |-> v.invalid_count,
             filtered_by_region |->
                IF RegionGiven(region)
                THEN Len(temp_valid_transactions) - Len(after_region) ELSE 0,
             filtered_by_amount |->
                IF amount_given
                THEN Len(temp_valid_transactions)
                     - Len(AmountFilter(temp_valid_transactions, min_amount, max_amount))
                ELSE 0,
             final_count |-> Len(after_amount)]]

validate_and_filter(ts, region, min_amount, max_amount) ==
    LET v == ValidationLoop(ts, <<>>, 0)
        temp_valid_transactions == v.temp_valid_transactions
        after_region ==
            IF RegionGiven(region)
            THEN RegionFilter(temp_valid_transactions, region)
            ELSE temp_valid_transactions
        amount_given == min_amount # None \/ max_amount # None
        after_amount ==
            IF amount_given
            THEN AmountFilter(after_region, min_amount, max_amount)
            ELSE after_region
    IN  [records |-> after_amount,
         invalid_count |-> v.invalid_count,
         filter_summary |->
            [total_input |-> Len(ts),
             invalid |-> v.invalid_count,
             filtered_by_region |->
                IF RegionGiven(region)
                THEN Len(temp_valid_transactions) - Len(after_region) ELSE 0,
             filtered_by_amount |->
                IF amount_given THEN Len(after_region) - Len(after_amount) ELSE 0,
             final_count |-> Len(after_amount)]]

\* ------------------------------------------------------------ data_processor
\* A dict is the sequence of its entries in insertion order, each with its `key`.
HasKey(d, k) == \E i \in 1..Len(d) : d[i].key = k
IndexOf(d, k) == CHOOSE i \in 1..Len(d) : d[i].key = k

\* A faulty variant of SortedDescending: sorted ascending, then reversed, which turns
\* the order of equal keys around.
SortedAscendingReversed(kind, items, key) ==
    Reverse(Items(sorted(kind, Keyed(items, key), FALSE)))

\* sorted(items, key=..., reverse=True); key[i] is the key of items[i].
SortedDescending(kind, items, key) == Items(sorted(kind, Keyed(items, key), TRUE))

\* A faulty variant of SortedByDate: the dict is returned in insertion order.
NotSortedByDate(items) == items

\* sorted(final_stats.items(), key=lambda item: item[0]), the keys being strings.
SortedByDate(items) ==
    Items(sorted("str", Keyed(items, [i \in 1..Len(items) |-> items[i].key]), FALSE))

\* A faulty variant of calculate_total_revenue: each amount is rounded to cents before
\* it is added.
RECURSIVE calculate_total_revenue_of_rounded(_)
calculate_total_revenue_of_rounded(ts) ==
    IF ts = <<>> THEN Exact(0)
    ELSE FloatAdd(FloatOfRounded(round2(Amount(Head(ts)))),
                  calculate_total_revenue_of_rounded(Tail(ts)))

\* sum(...): the amounts are added from the left, the first to 0.
RECURSIVE RevenueSum(_, _)
RevenueSum(ts, acc) ==
    IF ts = <<>> THEN acc
    ELSE RevenueSum(Tail(ts), FloatAdd(acc, Amount(Head(ts))))

calculate_total_revenue(ts) == RevenueSum(ts, Exact(0))

RECURSIVE RegionLoop(_, _)
RegionLoop(ts, region_stats) ==
    IF ts = <<>> THEN region_stats
    ELSE LET t == Head(ts)
             region == t.Region
             amount == Amount(t)
             present ==
                IF HasKey(region_stats, region) THEN region_stats
                ELSE Append(region_stats,
                            [key |-> region, total_sales |-> Exact(0),
                             transaction_count |-> 0])
             i == IndexOf(present, region)
         IN  RegionLoop(Tail(ts),
                        [present EXCEPT ![i].total_sales = FloatAdd(@, amount),
                                        ![i].transaction_count = @ + 1])

\* A faulty variant of percentage: the share is cut after 2 decimals.
percentage_truncated(total_sales, total_revenue) ==
    [hundredths |-> (100 * total_sales.units * 100) \div total_revenue.units]

\* A faulty variant of percentage: the share of the rounded total in the rounded revenue.
percentage_of_rounded(total_sales, total_revenue) ==
    round2(FloatMul(FloatDiv(FloatOfRounded(round2(total_sales)),
                             FloatOfRounded(round2(total_revenue))),
                    FromInt(100)))

\* round((stats['total_sales'] / total_revenue) * 100, 2)
percentage(total_sales, total_revenue) ==
    round2(FloatMul(FloatDiv(total_sales, total_revenue), FromInt(100)))

\* final_stats of region_wise_sales.
RegionFinalStats(region_stats, total_revenue) ==
    [i \in 1..Len(region_stats) |->
        [key |-> region_stats[i].key,
         total_sales |-> round2(region_stats[i].total_sales),
         transaction_count |-> region_stats[i].transaction_count,
         percentage |-> percentage(region_stats[i].total_sales, total_revenue)]]

\* sorted(final_stats.items(), key=lambda item: item[1]['total_sales'], reverse=True)
SortedByTotalSales(final_stats) ==
    SortedDescending("float", final_stats,
                     [i \in 1..Len(final_stats) |-> final_stats[i].total_sales])

RegionResult(region_stats, total_revenue) ==
    IF FloatEq(total_revenue, Exact(0)) THEN <<>>
    ELSE SortedByTotalSales(RegionFinalStats(region_stats, total_revenue))

region_wise_sales(ts) == RegionResult(RegionLoop(ts, <<>>), calculate_total_revenue(ts))

RECURSIVE ProductLoop(_, _)
ProductLoop(ts, product_stats) ==
    IF ts = <<>> THEN product_stats
    ELSE LET t == Head(ts)
             p_name == t.ProductName
             qty == t.Quantity
             revenue == Amount(t)
             present ==
                IF HasKey(product_stats, p_name) THEN product_stats
                ELSE Append(product_stats,
                            [key |-> p_name, quantity |-> 0, revenue |-> Exact(0)])
             i == IndexOf(present, p_name)
         IN  ProductLoop(Tail(ts),
                         [present EXCEPT ![i].quantity = @ + qty,
                                         ![i].revenue = FloatAdd(@, revenue)])

\* A faulty variant of Slice: product_list[:n + 1].
SliceOneMore(list, n) ==
    IF n + 1 >= 0 THEN SubSeq(list, 1, IF n + 1 < Len(list) THEN n + 1 ELSE Len(list))
    ELSE SubSeq(list, 1, IF Len(list) + n + 1 > 0 THEN Len(list) + n + 1 ELSE 0)

\* list[:n]; a negative n counts from the end.
Slice(list, n) ==
    IF n >= 0 THEN SubSeq(list, 1, IF n < Len(list) THEN n ELSE Len(list))
    ELSE SubSeq(list, 1, IF Len(list) + n > 0 THEN Len(list) + n ELSE 0)

\* The tuples are (name, quantity, revenue), the revenue not rounded.
ProductList(product_stats) ==
    [i \in 1..Len(product_stats) |->
        <<product_stats[i].key, product_stats[i].quantity, product_stats[i].revenue>>]

\* sorted(product_list, key=lambda x: x[1], reverse=True)
SortedByQuantity(product_list) ==
    SortedDescending("int", product_list,
                     [i \in 1..Len(product_list) |-> product_list[i][2]])

top_selling_products(ts, n) ==
    Slice(SortedByQuantity(ProductList(ProductLoop(ts, <<>>))), n)

RECURSIVE CustomerLoop(_, _)
CustomerLoop(ts, customer_stats) ==
    IF ts = <<>> THEN customer_stats
    ELSE LET t == Head(ts)
             c_id == t.CustomerID
             amount == Amount(t)
             p_name == t.ProductName
             present ==
                IF HasKey(customer_stats, c_id) THEN customer_stats
                ELSE Append(customer_stats,
                            [key |-> c_id, total_spent |-> Exact(0), purchase_count |-> 0,
                             products_set |-> {}])
             i == IndexOf(present, c_id)
         IN  CustomerLoop(Tail(ts),
                          [present EXCEPT ![i].total_spent = FloatAdd(@, amount),
                                          ![i].purchase_count = @ + 1,
                                          ![i].products_set = @ \cup {p_name}])

\* round(total_spent / purchase_count, 2) if purchase_count > 0 else 0
avg_order_value(total_spent, purchase_count) ==
    IF purchase_count > 0 THEN round2(FloatDiv(total_spent, FromInt(purchase_count)))
    ELSE [hundredths |-> 0]

\* products_bought is list(set): its order is not determined, so it is kept a set.
CustomerFinalStats(customer_stats) ==
    [i \in 1..Len(customer_stats) |->
        [key |-> customer_stats[i].key,
         total_spent |-> round2(customer_stats[i].total_spent),
         purchase_count |-> customer_stats[i].purchase_count,
         avg_order_value |-> avg_order_value(customer_stats[i].total_spent,
                                             customer_stats[i].purchase_count),
         products_bought |-> customer_stats[i].products_set]]

\* sorted(final_stats.items(), key=lambda item: item[1]['total_spent'], reverse=True)
SortedByTotalSpent(final_stats) ==
    SortedDescending("float", final_stats,
                     [i \in 1..Len(final_stats) |-> final_stats[i].total_spent])

customer_analysis(ts) == SortedByTotalSpent(CustomerFinalStats(CustomerLoop(ts, <<>>)))

RECURSIVE DailyLoop(_, _)
DailyLoop(ts, daily_stats) ==
    IF ts = <<>> THEN daily_stats
    ELSE LET t == Head(ts)
             date == t.Date
             amount == Amount(t)
             c_id == t.CustomerID
             present ==
                IF HasKey(daily_stats, date) THEN daily_stats
                ELSE Append(daily_stats,
                            [key |-> date, revenue |-> Exact(0), transaction_count |-> 0,
                             customers_set |-> {}])
             i == IndexOf(present, date)
         IN  DailyLoop(Tail(ts),
                       [present EXCEPT ![i].revenue = FloatAdd(@, amount),
                                       ![i].transaction_count = @ + 1,
                                       ![i].customers_set = @ \cup {c_id}])

DailyFinalStats(daily_stats) ==
    [i \in 1..Len(daily_stats) |->
        [key |-> daily_stats[i].key,
         revenue |-> round2(daily_stats[i].revenue),
         transaction_count |-> daily_stats[i].transaction_count,
         unique_customers |-> Cardinality(daily_stats[i].customers_set)]]

daily_sales_trend(ts) == SortedByDate(DailyFinalStats(DailyLoop(ts, <<>>)))

\* A faulty variant of MaxByRevenue: a later entry with the same revenue replaces the
\* best one.
RECURSIVE MaxByRevenueLast(_, _)
MaxByRevenueLast(items, best) ==
    IF items = <<>> THEN best
    ELSE MaxByRevenueLast(Tail(items),
                          IF ~RoundedLess(Head(items).revenue, best.revenue)
                          THEN Head(items) ELSE best)

\* max(items, key=revenue): an entry replaces the best one when its revenue is
\* greater, so the first of the entries with the greatest revenue is returned.
RECURSIVE MaxByRevenue(_, _)
MaxByRevenue(items, best) ==
    IF items = <<>> THEN best
    ELSE MaxByRevenue(Tail(items),
                      IF RoundedLess(best.revenue, Head(items).revenue)
                      THEN Head(items) ELSE best)

\* None, or Some of the tuple (date, revenue, transaction_count).
PeakTuple(peak_day) == <<peak_day.key, peak_day.revenue, peak_day.transaction_count>>

PeakOf(daily_stats) ==
    IF daily_stats = <<>> THEN None
    ELSE Some(PeakTuple(MaxByRevenue(Tail(daily_stats), Head(daily_stats))))

find_peak_sales_day(ts) == PeakOf(daily_sales_trend(ts))

\* ------------------------------------------------------ generate_sales_report
\* The number of rows of the top products and top customers tables, of the low
\* performing products, and of the sample of unenriched product ids.
TopRows == 5
BottomRows == 3
SampleLimit == 10

NA == <<"N", "/", "A">>

\* min(dates) and max(dates) of a list of strings that is not empty.
RECURSIVE MinStr(_, _)
MinStr(dates, best) ==
    IF dates = <<>> THEN best
    ELSE MinStr(Tail(dates), IF StrLess(Head(dates), best) THEN Head(dates) ELSE best)

RECURSIVE MaxStr(_, _)
MaxStr(dates, best) ==
    IF dates = <<>> THEN best
    ELSE MaxStr(Tail(dates), IF StrLess(best, Head(dates)) THEN Head(dates) ELSE best)

DateRangeOf(dates) ==
    IF dates # <<>>
    THEN MinStr(Tail(dates), Head(dates)) \o <<" ", "t", "o", " ">>
         \o MaxStr(Tail(dates), Head(dates))
    ELSE NA

date_range(ts) == DateRangeOf([i \in 1..Len(ts) |-> ts[i].Date])

BestDayOf(peak) ==
    IF peak # None
    THEN peak[1][1] \o <<" ", "(", "$">> \o Fmt2(peak[1][2])
         \o <<" ", "w", "i", "t", "h", " ">> \o IntText(peak[1][3])
         \o <<" ", "t", "x", "n", "s", ")">>
    ELSE NA

best_day_str(ts) == BestDayOf(find_peak_sales_day(ts))

\* sorted(product_sales.items(), key=lambda x: x[1])
SortedAscending(items, key) == Items(sorted("int", Keyed(items, key), FALSE))

\* product_sales[t['ProductName']] += t['Quantity']
ProductSales(product_stats) ==
    [i \in 1..Len(product_stats) |-> <<product_stats[i].key, product_stats[i].quantity>>]

SortedProducts(product_sales) ==
    SortedAscending(product_sales, [i \in 1..Len(product_sales) |-> product_sales[i][2]])

low_performers(ts) ==
    Slice(SortedProducts(ProductSales(ProductLoop(ts, <<>>))), BottomRows)

\* stats['total_sales'] / stats['transaction_count'] if stats['transaction_count']
\* else 0, of the rounded total of each region, as it is written with 2 decimals.
avg_val(stats) ==
    IF stats.transaction_count # 0
    THEN round2(FloatDiv(FloatOfRounded(stats.total_sales), FromInt(stats.transaction_count)))
    ELSE [hundredths |-> 0]

\* t.get('enriched', False)
get_enriched(t) == "enriched" \in DOMAIN t /\ t.enriched

RECURSIVE total_enriched(_)
total_enriched(enriched) ==
    IF enriched = <<>> THEN 0
    ELSE (IF get_enriched(Head(enriched)) THEN 1 ELSE 0) + total_enriched(Tail(enriched))

\* (total_enriched / len(transactions)) * 100 if transactions else 0, as it is
\* written with 2 decimals.
success_rate(ts, enriched) ==
    IF ts # <<>>
    THEN round2(FloatMul(FloatDiv(FromInt(total_enriched(enriched)), FromInt(Len(ts))),
                         FromInt(100)))
    ELSE [hundredths |-> 0]

unenriched_ids(enriched) ==
    {enriched[i].ProductID : i \in {j \in 1..Len(enriched) : ~get_enriched(enriched[j])}}

\* The denominators of the divisions that each function carries out on its input:
\* a division by zero raises ZeroDivisionError.
region_wise_sales_divisors_unguarded(ts) ==
    [i \in 1..Len(RegionLoop(ts, <<>>)) |-> calculate_total_revenue(ts)]

GuardedDivisors(region_stats, total_revenue) ==
    IF FloatEq(total_revenue, Exact(0)) THEN <<>>
    ELSE [i \in 1..Len(region_stats) |-> total_revenue]

region_wise_sales_divisors(ts) ==
    GuardedDivisors(RegionLoop(ts, <<>>), calculate_total_revenue(ts))

\* The floats of the counts that are divided by.
FloatsOf(divided) == [i \in 1..Len(divided) |-> FromInt(divided[i])]

PurchaseCounts(customer_stats) ==
    [i \in 1..Len(customer_stats) |-> customer_stats[i].purchase_count]

customer_analysis_divisors(ts) ==
    FloatsOf(SelectSeq(PurchaseCounts(CustomerLoop(ts, <<>>)),
                       LAMBDA purchase_count : purchase_count > 0))

TransactionCounts(region_stats) ==
    [i \in 1..Len(region_stats) |-> region_stats[i].transaction_count]

generate_sales_report_divisors(ts, enriched) ==
    (IF Len(ts) > 0 THEN <<FromInt(Len(ts))>> ELSE <<>>)
    \o region_wise_sales_divisors(ts)
    \o customer_analysis_divisors(ts)
    \o FloatsOf(SelectSeq(TransactionCounts(region_wise_sales(ts)),
                          LAMBDA transaction_count : transaction_count # 0))
    \o (IF ts # <<>> THEN <<FromInt(Len(ts))>> ELSE <<>>)

ZeroDivisionError(divisors) == \E i \in 1..Len(divisors) : IsZero(divisors[i])

\* The values that the report writes.  An amount that is written with 2 decimals
\* is here the float rounded to 2 decimals, which Fmt2 writes.
\* total_revenue / total_transactions if total_transactions > 0 else 0
report_avg(total_revenue, total_transactions) ==
    IF total_transactions > 0
    THEN round2(FloatDiv(total_revenue, FromInt(total_transactions)))
    ELSE [hundredths |-> 0]

AvgPerRegion(region_stats) ==
    [i \in 1..Len(region_stats) |->
        [key |-> region_stats[i].key, avg_val |-> avg_val(region_stats[i])]]

\* The report of the values that generate_sales_report computes first.
ReportOf(ts, enriched, total_revenue, total_transactions, region_stats, ids) ==
    [records_processed |-> Len(ts),
     total_revenue |-> round2(total_revenue),
     total_transactions |-> total_transactions,
     avg_order_value |-> report_avg(total_revenue, total_transactions),
     date_range |-> date_range(ts),
     region_stats |-> region_stats,
     top_products |-> top_selling_products(ts, TopRows),
     top_customers |-> Slice(customer_analysis(ts), TopRows),
     daily_stats |-> daily_sales_trend(ts),
     best_day |-> best_day_str(ts),
     low_performers |-> low_performers(ts),
     avg_per_region |-> AvgPerRegion(region_stats),
     total_enriched |-> total_enriched(enriched),
     success_rate |-> success_rate(ts, enriched),
     unenriched_sample |-> IF ids > SampleLimit THEN SampleLimit ELSE ids,
     unenriched_more |-> IF ids > SampleLimit THEN ids - SampleLimit ELSE 0,
     raised |-> ZeroDivisionError(generate_sales_report_divisors(ts, enriched))]

generate_sales_report(ts, enriched) ==
    ReportOf(ts, enriched, calculate_total_revenue(ts), Len(ts), region_wise_sales(ts),
             Cardinality(unenriched_ids(enriched)))

\* ------------------------------------------------------------------ api_handler
\* The keys of the product mapping are the ids of the products, numbers or strings.
IntKey(n) == [int |-> n]
StrKey(s) == [str |-> s]

\* d.get(k): None or Some of the value.
get(d, k) == IF HasKey(d, k) THEN Some(d[IndexOf(d, k)].value) ELSE None

\* A product is a record with its id, which is None when the product has none.
RECURSIVE MappingLoop(_, _)
MappingLoop(api_products, mapping) ==
    IF api_products = <<>> THEN mapping
    ELSE LET p == Head(api_products)
             info == [title |-> p.title, category |-> p.category,
                      brand |-> p.brand, rating |-> p.rating]
         IN  MappingLoop(Tail(api_products),
                IF p.id = None THEN mapping
                ELSE IF HasKey(mapping, p.id[1])
                     THEN [mapping EXCEPT ![IndexOf(mapping, p.id[1])].value = info]
                     ELSE Append(mapping, [key |-> p.id[1], value |-> info]))

create_product_mapping(api_products) == MappingLoop(api_products, <<>>)

\* ------------------------------------------------------- the enrichment of main
\* d.update(other) on dicts with string keys.
update(d, other) ==
    [k \in DOMAIN d \cup DOMAIN other |-> IF k \in DOMAIN other THEN other[k] ELSE d[k]]

\* product_map.get(pid_int) when the id without its letters P is a number, else
\* product_map.get(t['ProductID']); pid_int is None when int() raised ValueError.
matched_info(t, product_map_, pid_int) ==
    IF pid_int # None THEN get(product_map_, IntKey(pid_int[1]))
    ELSE get(product_map_, StrKey(t.ProductID))

\* enriched_t: the copy updated with the product found, or flagged not enriched.
Enriched(copy, matched) ==
    IF matched # None
    THEN update(update(copy, matched[1]), [enriched |-> TRUE])
    ELSE update(copy, [enriched |-> FALSE])

\* A faulty variant of EnrichOne: the transaction itself is enriched, not a copy.
EnrichOneInPlace(t, product_map_) ==
    [t |-> Enriched(t, matched_info(t, product_map_, int(replace(t.ProductID, "P", <<>>)))),
     enriched_t |->
        Enriched(t, matched_info(t, product_map_, int(replace(t.ProductID, "P", <<>>))))]

\* The body of the enrichment loop: the transaction as the loop leaves it, and the
\* enriched copy.  An entry of the mapping is a dict of four keys, so it is true
\* whenever it is found.
EnrichOne(t, product_map_) ==
    [t |-> t,
     enriched_t |->
        Enriched(t, matched_info(t, product_map_, int(replace(t.ProductID, "P", <<>>))))]

\* The list as the loop leaves it, and the list of the enriched copies.
LoopResult(steps) ==
    [source |-> [i \in 1..Len(steps) |-> steps[i].t],
     enriched_transactions |-> [i \in 1..Len(steps) |-> steps[i].enriched_t]]

EnrichLoop(ts, product_map_) ==
    LoopResult([i \in 1..Len(ts) |-> EnrichOne(ts[i], product_map_)])

\* The enriched data file: the keys of the first record make the header, and each
\* record makes one row of these keys (the text of the values is not modelled).
enriched_file(enriched) ==
    [keys |-> IF enriched # <<>> THEN DOMAIN enriched[1] ELSE {},
     rows |-> Len(enriched)]


\* ---------------------------------------------------- inputs of validate_and_filter
\* One well-formed record per region and amount, and one record per way of
\* breaking a single validation rule.
ValidRecords ==
    {Transaction(T001, Dec01, P101, Mouse, q, Exact(32), C001, r) :
        q \in {1, 2}, r \in {North, South}}
    \cup {Transaction(T001, Dec01, P101, Mouse, 1, Exact(32), C001, north)}

InvalidRecords ==
    {Transaction(T001, Dec01, P101, Mouse, q, Exact(32), C001, North) : q \in {0, -1}}
    \cup {Transaction(T001, Dec01, P101, Mouse, 1, Exact(p), C001, North) : p \in {0, -32}}
    \cup {Transaction(t, Dec01, P101, Mouse, 1, Exact(32), C001, North) : t \in {Empty, X001}}
    \cup {Transaction(T001, Empty, P101, Mouse, 1, Exact(32), C001, North)}
    \cup {Transaction(T001, Dec01, p, Mouse, 1, Exact(32), C001, North) : p \in {Empty, Q101}}
    \cup {Transaction(T001, Dec01, P101, Empty, 1, Exact(32), C001, North)}
    \cup {Transaction(T001, Dec01, P101, Mouse, 1, Exact(32), c, North) : c \in {Empty, D001}}
    \cup {Transaction(T001, Dec01, P101, Mouse, 1, Exact(32), C001, Empty)}

ParsedRecords == ValidRecords \cup InvalidRecords

RegionArgs == {None, Some(Empty), Some(North), Some(north)}
MinArgs == {None, Some(Exact(0)), Some(Exact(64))}
MaxArgs == {None, Some(Exact(0)), Some(Exact(32)), Some(Exact(64))}

\* ------------------------------------------------------------ state machine
NoCall == [op |-> "none"]

\* main() is not running.
MainIdle ==
    /\ raw_lines = <<>>
    /\ pc = "idle"
    /\ valid_transactions = <<>>
    /\ product_map = <<>>
    /\ enriched_transactions = <<>>
    /\ files = <<>>
    /\ stages = <<>>

Init ==
    /\ transactions \in ListsUpTo(ParsedRecords, MaxInput)
    /\ call = NoCall
    /\ MainIdle

\* valid, invalid, summary = validate_and_filter(transactions, region, min, max)
ValidateAndFilter ==
    \E region \in RegionArgs, min_amount \in MinArgs, max_amount \in MaxArgs :
        /\ call' = [op |-> "validate_and_filter",
                    region |-> region,
                    min_amount |-> min_amount,
                    max_amount |-> max_amount,
                    result |-> validate_and_filter(transactions, region,
                                                   min_amount, max_amount)]
        /\ UNCHANGED <<transactions, mainVars>>

Next == ValidateAndFilter

Spec == Init /\ [][Next]_vars

\* ------------------------------------------- state machine of the aggregation
\* Two customers, each in one region, two products, each with its price and its
\* day of sale, and the quantities 0, 1 and 2.  31/256 and 32/256 both round to
\* 0.12, and 32/256 = 0.125 and 96/256 = 0.375 lie halfway between two cents.
Customers == {<<C001, North>>, <<C002, South>>}
Products ==
    {<<P101, Mouse, Exact(31), Dec01>>, <<P102, Keyboard, Exact(32), Dec02>>}
Quantities == {0, 1, 2}

SalesRecords ==
    {Transaction(T001, p[4], p[1], p[2], q, p[3], c[1], c[2]) :
        p \in Products, c \in Customers, q \in Quantities}

\* Lists with a quotient halfway between two hundredths that no float holds: the
\* shares 23/160 = 14.375 % and 137/160 = 85.625 %, and the average 0.125 / 5 =
\* 0.025 of five purchases.
HalfwayLists ==
    {<<Transaction(T001, Dec02, P102, Keyboard, 23, Exact(32), C001, North),
       Transaction(T001, Dec02, P102, Keyboard, 137, Exact(32), C002, South)>>,
     [i \in 1..5 |->
        Transaction(T001, Dec02, P102, Keyboard, IF i = 1 THEN 1 ELSE 0, Exact(32), C001,
                    North)]}

InitAgg ==
    /\ transactions \in ListsUpTo(SalesRecords, MaxLen) \cup HalfwayLists
    /\ call = NoCall
    /\ MainIdle

CalculateTotalRevenue ==
    /\ call' = [op |-> "calculate_total_revenue",
                result |-> calculate_total_revenue(transactions)]
    /\ UNCHANGED <<transactions, mainVars>>

RegionWiseSales ==
    /\ call' = [op |-> "region_wise_sales", result |-> region_wise_sales(transactions)]
    /\ UNCHANGED <<transactions, mainVars>>

TopSellingProducts ==
    \E n \in (-1)..MaxN :
        /\ call' = [op |-> "top_selling_products", n |-> n,
                    result |-> top_selling_products(transactions, n)]
        /\ UNCHANGED <<transactions, mainVars>>

CustomerAnalysis ==
    /\ call' = [op |-> "customer_analysis", result |-> customer_analysis(transactions)]
    /\ UNCHANGED <<transactions, mainVars>>

DailySalesTrend ==
    /\ call' = [op |-> "daily_sales_trend", result |-> daily_sales_trend(transactions)]
    /\ UNCHANGED <<transactions, mainVars>>

FindPeakSalesDay ==
    /\ call' = [op |-> "find_peak_sales_day",
                result |-> find_peak_sales_day(transactions)]
    /\ UNCHANGED <<transactions, mainVars>>

NextAgg ==
    \/ CalculateTotalRevenue
    \/ RegionWiseSales
    \/ TopSellingProducts
    \/ CustomerAnalysis
    \/ DailySalesTrend
    \/ FindPeakSalesDay

SpecAgg == InitAgg /\ [][NextAgg]_vars

\* ------------------------------------------- state machine of the many regions
\* n sales of price 32/256, each in a region of its own, the first j of quantity 1
\* and the others of quantity 2.
RegionName(i) == <<"R", Digits[(i \div 10) + 1], Digits[(i % 10) + 1]>>

RegionLists ==
    {[i \in 1..n |->
        Transaction(T001, Dec01, P101, Mouse, IF i <= j THEN 1 ELSE 2, Exact(32), C001,
                    RegionName(i))] : n \in 1..MaxRegions, j \in 0..MaxRegions}

InitRegions ==
    /\ transactions \in RegionLists \cup HalfwayLists
    /\ call = NoCall
    /\ MainIdle

NextRegions == RegionWiseSales

SpecRegions == InitRegions /\ [][NextRegions]_vars

\* ----------------------------------------------- state machine of the report
\* The second argument of generate_sales_report: records with the flag set, with
\* the flag cleared, and without the flag.
Flagged(t, flag) == update(t, [enriched |-> flag])

EnrichedRecords ==
    {Flagged(Transaction(T001, Dec01, P101, Mouse, 1, Exact(32), C001, North), TRUE),
     Flagged(Transaction(T001, Dec02, P102, Keyboard, 1, Exact(32), C002, South), FALSE),
     Transaction(T001, Dec01, P101, Mouse, 1, Exact(32), C001, North)}

\* The first argument: sales of quantity 0 or 1, of one product to one customer
\* and of the other product to the other.
ReportRecords ==
    {t \in SalesRecords : t.Quantity < 2 /\ (t.ProductID = P101 <=> t.CustomerID = C001)}

InitReport ==
    /\ transactions \in ListsUpTo(ReportRecords, MaxInput)
    /\ call = NoCall
    /\ MainIdle

GenerateSalesReport ==
    \E enriched \in ListsUpTo(EnrichedRecords, MaxEnriched) :
        /\ call' = [op |-> "generate_sales_report", enriched_transactions |-> enriched,
                    result |-> generate_sales_report(transactions, enriched)]
        /\ UNCHANGED <<transactions, mainVars>>

NextReport ==
    \/ NextAgg
    \/ GenerateSalesReport

SpecReport == InitReport /\ [][NextReport]_vars

\* ------------------------------------------------------ state machine of main
join(sep, fields) ==
    LET RECURSIVE JoinLoop(_)
        JoinLoop(fs) == IF fs = <<>> THEN <<>> ELSE <<sep>> \o Head(fs) \o JoinLoop(Tail(fs))
    IN  IF fields = <<>> THEN <<>> ELSE Head(fields) \o JoinLoop(Tail(fields))

Line(fields) == join("|", fields)

Header == Line(<<T001, Dec01>>)

P1P2 == <<"P", "1", "P", "2">>
P12 == <<"P", "1", "2">>
PX == <<"P", "X">>
Price0125 == <<"0", ".", "1", "2", "5">>
Price025 == <<"0", ".", "2", "5">>

\* Lines of a sales file: a clean one, one with commas and blanks to clean, valid
\* ones with other product ids, one with 7 and one with 9 fields, one with a
\* quantity and one with a price that is no number, one that parses but is not
\* valid, and a blank one; one with form feeds at the ends of the row, of a field
\* and of the quantity and within the ProductID, and a price with an exponent;
\* prices inf and nan, a price that is no multiple of a power of 2, and a line
\* of one form feed.
FileLines ==
    {Line(<<T001, Dec01, P101, Mouse, <<"1">>, Price0125, C001, North>>),
     Line(<<T001 \o <<" ">>, Dec01, P1P2, <<",">> \o Mouse \o <<",", "x", " ">>,
            <<"1", ",", "0">>, <<"1", ",", "0", ".", "2", "5">>, C001, <<" ">> \o North>>),
     Line(<<T001, Dec02, PX, Keyboard, <<"2">>, Price025, C002, South>>),
     Line(<<T001, Dec02, P12, Mouse, <<" ", "2", " ">>, <<".", "5">>, C001, North>>),
     Line(<<T001, Dec01, P101, Mouse, <<"1">>, Price0125, C001>>),
     Line(<<T001, Dec01, P101, Mouse, <<"1">>, Price0125, C001, North, Empty>>),
     Line(<<T001, Dec01, P101, Mouse, <<"x">>, Price0125, C001, North>>),
     Line(<<T001, Dec01, P101, Mouse, <<"1">>, <<"1", ".", "2", ".", "3">>, C001, North>>),
     Line(<<T001, Dec01, P101, Mouse, <<"0">>, Price0125, C001, North>>),
     <<" ", " ">>,
     Line(<<T001 \o <<"\f">>, Dec01, <<"P", "\f", "1", "2">>, Mouse, <<"\f", "1">>,
            <<"1", "e", "2">>, C001, North \o <<"\f">>>>),
     Line(<<T001, Dec01, P101, Mouse, <<"1">>, <<"i", "n", "f">>, C001, North>>),
     Line(<<T001, Dec02, P102, Keyboard, <<"1">>, <<"n", "a", "n">>, C002, South>>),
     Line(<<T001, Dec01, P101, Mouse, <<"3">>, <<"0", ".", "1">>, C001, North>>),
     <<"\f">>}

\* readlines() of a file with these lines.
Readlines(lines) == [i \in 1..Len(lines) |-> lines[i] \o <<"\n">>]

Files ==
    {None, Some(<<>>)}
    \cup {Some(Readlines(<<Header>> \o lines)) : lines \in ListsUpTo(FileLines, MaxLines)}

Product(id) == [id |-> id, title |-> Mouse, category |-> None, brand |-> None, rating |-> 4]

\* What fetch_all_products returns: no product when the request fails, else the
\* products of the response.
ApiResponses ==
    {<<>>,
     <<Product(Some(IntKey(101))), Product(Some(IntKey(12)))>>,
     <<Product(Some(StrKey(P1P2))), Product(Some(StrKey(PX))), Product(None)>>}

\* The number of products and of customers that main prints.
TopSelling == 5
TopSpenders == 3

\* Where main goes after the read and after the validation.
AfterRead(lines) == IF lines = <<>> THEN "done" ELSE "parse"
AfterValidateAlways(valid) == "analyse"
AfterValidate(valid) == IF valid = <<>> THEN "done" ELSE "analyse"

InitMain ==
    /\ transactions = <<>>
    /\ call = NoCall
    /\ raw_lines = <<>>
    /\ pc = "read"
    /\ valid_transactions = <<>>
    /\ product_map = <<>>
    /\ enriched_transactions = <<>>
    /\ files = <<>>
    /\ stages = <<>>

MainRead ==
    /\ pc = "read"
    /\ \E file \in Files :
        \E lines \in {read_sales_data(file)} :
            /\ raw_lines' = lines
            /\ pc' = AfterRead(lines)
    /\ stages' = Append(stages, "read")
    /\ UNCHANGED <<transactions, call, valid_transactions, product_map,
                   enriched_transactions, files>>

MainParse ==
    /\ pc = "parse"
    /\ transactions' = parse_transactions(raw_lines)
    /\ pc' = "validate"
    /\ stages' = Append(stages, "parse")
    /\ UNCHANGED <<call, raw_lines, valid_transactions, product_map,
                   enriched_transactions, files>>

MainValidate ==
    /\ pc = "validate"
    /\ \E result \in {validate_and_filter(transactions, None, None, None)} :
           /\ call' = [op |-> "validate_and_filter", region |-> None,
                       min_amount |-> None, max_amount |-> None, result |-> result]
           /\ valid_transactions' = result.records
           /\ pc' = AfterValidate(result.records)
    /\ stages' = Append(stages, "validate")
    /\ UNCHANGED <<transactions, raw_lines, product_map, enriched_transactions, files>>

MainAnalyse ==
    /\ pc = "analyse"
    /\ call' = [op |-> "analyse",
                revenue |-> calculate_total_revenue(valid_transactions),
                region_stats |-> region_wise_sales(valid_transactions),
                top_products |-> top_selling_products(valid_transactions, TopSelling),
                peak_data |-> find_peak_sales_day(valid_transactions),
                top_3_customers |-> Slice(customer_analysis(valid_transactions), TopSpenders)]
    /\ pc' = "fetch"
    /\ stages' = Append(stages, "analyse")
    /\ UNCHANGED <<transactions, raw_lines, valid_transactions, product_map,
                   enriched_transactions, files>>

MainFetch ==
    /\ pc = "fetch"
    /\ \E api_products \in ApiResponses :
        product_map' = create_product_mapping(api_products)
    /\ pc' = "enrich"
    /\ stages' = Append(stages, "fetch")
    /\ UNCHANGED <<transactions, call, raw_lines, valid_transactions,
                   enriched_transactions, files>>

MainEnrich ==
    /\ pc = "enrich"
    /\ \E loop \in {EnrichLoop(valid_transactions, product_map)} :
           /\ valid_transactions' = loop.source
           /\ enriched_transactions' = loop.enriched_transactions
    /\ pc' = "dump"
    /\ stages' = Append(stages, "enrich")
    /\ UNCHANGED <<transactions, call, raw_lines, product_map, files>>

MainDump ==
    /\ pc = "dump"
    /\ files' = Append(files, [name |-> "output/enriched_sales_data.txt",
                               content |-> enriched_file(enriched_transactions)])
    /\ pc' = "report"
    /\ stages' = Append(stages, "dump")
    /\ UNCHANGED <<transactions, call, raw_lines, valid_transactions, product_map,
                   enriched_transactions>>

MainReport ==
    /\ pc = "report"
    /\ files' = Append(files,
                       [name |-> "output/sales_report.txt",
                        content |-> generate_sales_report(valid_transactions,
                                                          enriched_transactions)])
    /\ pc' = "done"
    /\ stages' = Append(stages, "report")
    /\ UNCHANGED <<transactions, call, raw_lines, valid_transactions, product_map,
                   enriched_transactions>>

NextMain ==
    \/ MainRead
    \/ MainParse
    \/ MainValidate
    \/ MainAnalyse
    \/ MainFetch
    \/ MainEnrich
    \/ MainDump
    \/ MainReport

SpecMain == InitMain /\ [][NextMain]_vars

\* -------------------------------------- state machine of the calls on one list
\* The functions are called one after the other on the same list.
InitCalls ==
    /\ transactions \in ListsUpTo({t \in SalesRecords : t.Quantity > 0}, MaxInput)
    /\ call = NoCall
    /\ MainIdle

EnrichTransactions ==
    \E api_products \in ApiResponses :
        \E mapping \in {create_product_mapping(api_products)} :
            \E loop \in {EnrichLoop(transactions, mapping)} :
                /\ call' = [op |-> "enrich", product_map |-> mapping,
                            result |-> loop.enriched_transactions]
                /\ transactions' = loop.source
                /\ UNCHANGED mainVars

NextCalls ==
    \/ ValidateAndFilter
    \/ NextAgg
    \/ EnrichTransactions

SpecCalls == InitCalls /\ [][NextCalls]_vars
\* ------------------------------------------------------------------ claims
IsValidateCall == call.op = "validate_and_filter"

\* The validation rules as the specification lists them.
RuleBroken(t) ==
    \/ t.Quantity <= 0
    \/ FloatLessEq(t.UnitPrice, Exact(0))
    \/ \E f \in {"TransactionID", "Date", "ProductID", "ProductName",
                 "CustomerID", "Region"} : Len(t[f]) = 0
    \/ Len(t.TransactionID) = 0 \/ Head(t.TransactionID) # "T"
    \/ Len(t.ProductID) = 0 \/ Head(t.ProductID) # "P"
    \/ Len(t.CustomerID) = 0 \/ Head(t.CustomerID) # "C"

\* The positions of a list whose record satisfies P, and the sub-list of them.
Positions(ts, P(_)) == {i \in 1..Len(ts) : P(ts[i])}
Sublist(ts, P(_)) == SelectSeq(ts, P)

PassedValidation(t) == ~RuleBroken(t)
ValidInput == Sublist(transactions, PassedValidation)

AmountGiven == call.min_amount # None \/ call.max_amount # None
WithinBounds(t) ==
    /\ (call.min_amount = None
            \/ call.min_amount[1].units <= t.Quantity * t.UnitPrice.units)
    /\ (call.max_amount = None
            \/ t.Quantity * t.UnitPrice.units <= call.max_amount[1].units)

\* C1: count conservation of the filter summary: total_input = invalid + (records
\* that passed validation), and (records that passed validation) = final_count +
\* filtered_by_region + filtered_by_amount, with final_count the length of the
\* returned list and 0 for a filter that was not applied.
C1_CountConservation ==
    IsValidateCall =>
        LET s == call.result.filter_summary
            n_valid == Cardinality(Positions(transactions, PassedValidation))
        IN  /\ s.total_input = Len(transactions)
            /\ s.total_input = s.invalid + n_valid
            /\ n_valid = s.final_count + s.filtered_by_region + s.filtered_by_amount
            /\ s.final_count = Len(call.result.records)
            /\ (call.region = None => s.filtered_by_region = 0)
            /\ (~AmountGiven => s.filtered_by_amount = 0)
            /\ s.filtered_by_region >= 0
            /\ s.filtered_by_amount >= 0

\* C1's case: one record invalid, one removed by the region filter, and an amount
\* filter that was given.
C1_Witness ==
    /\ IsValidateCall
    /\ call.result.filter_summary.invalid = 1
    /\ call.result.filter_summary.filtered_by_region = 1
    /\ AmountGiven

\* C2: a record is counted invalid exactly when it breaks one of the listed rules:
\* invalid_count is the number of such records, no such record is returned under
\* any filter arguments, and without filters every other record is returned.
C2_InvalidIffRuleBroken ==
    IsValidateCall =>
        /\ call.result.invalid_count = Cardinality(Positions(transactions, RuleBroken))
        /\ call.result.filter_summary.invalid = call.result.invalid_count
        /\ \A i \in 1..Len(call.result.records) : ~RuleBroken(call.result.records[i])
        /\ (call.region = None /\ ~AmountGiven => call.result.records = ValidInput)

\* C2's case: a list with a record that breaks a rule and one that breaks none,
\* validated with a filter given.
C2_Witness ==
    /\ IsValidateCall
    /\ call.region # None
    /\ call.result.invalid_count = 1
    /\ Len(call.result.records) = 1

\* C3 as stated: for every string given as region, empty or not, only records of
\* exactly that region are returned and filtered_by_region counts the valid
\* records of another region.
C3_EveryStringFilters ==
    IsValidateCall /\ call.region # None =>
        LET OtherRegion(t) == PassedValidation(t) /\ t.Region # call.region[1]
        IN  /\ \A i \in 1..Len(call.result.records) :
                    call.result.records[i].Region = call.region[1]
            /\ call.result.filter_summary.filtered_by_region
                    = Cardinality(Positions(transactions, OtherRegion))

\* C3 amended: for every non-empty string given as region, only records whose
\* Region equals it exactly (case-sensitive) are returned and filtered_by_region is
\* the number of valid records of another region; when no region or the empty
\* string is given, filtered_by_region is 0 and no record is removed for its
\* region.
C3_NonEmptyRegionFilters ==
    IsValidateCall =>
        LET OtherRegion(t) == PassedValidation(t) /\ t.Region # call.region[1]
            SameRegion(t) == PassedValidation(t) /\ t.Region = call.region[1]
            s == call.result.filter_summary
        IN  IF call.region # None /\ Len(call.region[1]) > 0
            THEN /\ \A i \in 1..Len(call.result.records) :
                        call.result.records[i].Region = call.region[1]
                 /\ s.filtered_by_region
                        = Cardinality(Positions(transactions, OtherRegion))
                 /\ (~AmountGiven =>
                        call.result.records = Sublist(transactions, SameRegion))
            ELSE /\ s.filtered_by_region = 0
                 /\ (~AmountGiven => call.result.records = ValidInput)
                 /\ s.final_count + s.filtered_by_amount = Len(ValidInput)

\* C3's case: the filter "North" removes a valid record of region "north" and
\* keeps one of region "North".
C3_Witness ==
    /\ IsValidateCall
    /\ call.region = Some(North)
    /\ \E i \in 1..Len(transactions) :
            transactions[i].Region = north /\ PassedValidation(transactions[i])
    /\ Len(call.result.records) = 1
    /\ call.result.filter_summary.filtered_by_region = 1

Idx == 1..Len(transactions)
\* The amount of each record in 1/Unit, the prices being multiples of it.
AmountAt == [i \in Idx |-> transactions[i].Quantity * transactions[i].UnitPrice.units]
QuantityAt == [i \in Idx |-> transactions[i].Quantity]

RECURSIVE SumOver(_, _)
SumOver(S, f) ==
    IF S = {} THEN 0
    ELSE LET x == CHOOSE x \in S : TRUE IN f[x] + SumOver(S \ {x}, f)

\* The values of a field in the input, the positions that hold one value, and the
\* first of them.
Keys(field) == {transactions[i][field] : i \in Idx}
GroupOf(field, k) == {i \in Idx : transactions[i][field] = k}
FirstSeen(field, k) ==
    CHOOSE i \in GroupOf(field, k) : \A j \in GroupOf(field, k) : i <= j
GroupAmount(field, k) == SumOver(GroupOf(field, k), AmountAt)
KeysOf(r) == {r[i].key : i \in 1..Len(r)}

\* h hundredths is num/den rounded to 2 decimals: no hundredth is nearer, and of
\* two equally near ones h is the even one (den > 0).
IsRounded2(h, num, den) ==
    LET diff == 100 * num - h * den
        dist == IF diff < 0 THEN -diff ELSE diff
    IN  /\ 2 * dist <= den
        /\ (2 * dist = den => h % 2 = 0)

\* h hundredths is the quotient num/den of two floats rounded to 2 decimals: no
\* hundredth is nearer.  A quotient halfway between two hundredths is a float only
\* when it is a multiple of 1/8; of any other the float lies to one side, and
\* round() takes the hundredth on that side, even or odd (den > 0).
IsNearest2(h, num, den) ==
    LET diff == 100 * num - h * den
        dist == IF diff < 0 THEN -diff ELSE diff
    IN  2 * dist <= den

\* a comes before b in the lexicographic order of strings.
LexBefore(a, b) ==
    \E k \in 1..(Len(b)) :
        /\ k <= Len(a) + 1
        /\ \A m \in 1..(k - 1) : a[m] = b[m]
        /\ (k = Len(a) + 1 \/ ord(a[k]) < ord(b[k]))

\* C5: region_wise_sales returns nothing when the total revenue is zero, and
\* otherwise one entry per distinct Region, with total_sales the region's sum
\* rounded to 2 decimals, transaction_count the number of its transactions and
\* percentage = unrounded region sum / unrounded total * 100 rounded to 2 decimals,
\* ordered by rounded total_sales non-increasing, regions with equal rounded
\* total_sales in the order of their first occurrence.
C5_RegionWiseSales ==
    call.op = "region_wise_sales" =>
        LET r == call.result
            total == SumOver(Idx, AmountAt)
        IN  IF total = 0 THEN r = <<>>
            ELSE /\ Len(r) = Cardinality(Keys("Region"))
                 /\ KeysOf(r) = Keys("Region")
                 /\ \A i \in 1..Len(r) :
                        /\ IsRounded2(r[i].total_sales.hundredths, GroupAmount("Region", r[i].key), Unit)
                        /\ r[i].transaction_count
                                = Cardinality(GroupOf("Region", r[i].key))
                        /\ IsNearest2(r[i].percentage.hundredths,
                                      100 * GroupAmount("Region", r[i].key), total)
                 /\ \A i, j \in 1..Len(r) :
                        i < j =>
                            \/ r[i].total_sales.hundredths > r[j].total_sales.hundredths
                            \/ /\ r[i].total_sales = r[j].total_sales
                               /\ FirstSeen("Region", r[i].key) < FirstSeen("Region", r[j].key)

\* C5's case: two regions whose totals differ before rounding and are equal after
\* it, the smaller one met first and so listed first.
C5_Witness ==
    /\ call.op = "region_wise_sales"
    /\ Len(call.result) = 2
    /\ call.result[1].total_sales = call.result[2].total_sales
    /\ GroupAmount("Region", call.result[1].key) < GroupAmount("Region", call.result[2].key)

\* C6: for n >= 0, top_selling_products returns the first min(n, number of distinct
\* product names) entries of the list of (name, summed Quantity, summed unrounded
\* amount) per ProductName sorted by summed quantity non-increasing, products with
\* equal quantity in the order of their first occurrence; never more than n.
C6_TopSellingProducts ==
    call.op = "top_selling_products" /\ call.n >= 0 =>
        LET r == call.result
            names == Keys("ProductName")
            entry(k) == <<k, SumOver(GroupOf("ProductName", k), QuantityAt),
                          Exact(GroupAmount("ProductName", k))>>
            Before(a, b) ==
                \/ a[2] > b[2]
                \/ /\ a[2] = b[2]
                   /\ FirstSeen("ProductName", a[1]) < FirstSeen("ProductName", b[1])
            returned == {r[i][1] : i \in 1..Len(r)}
        IN  /\ Len(r) = (IF call.n < Cardinality(names) THEN call.n
                         ELSE Cardinality(names))
            /\ Len(r) <= call.n
            /\ \A i \in 1..Len(r) : r[i][1] \in names /\ r[i] = entry(r[i][1])
            /\ \A i, j \in 1..Len(r) : i < j => Before(r[i], r[j])
            /\ \A k \in names \ returned : \A i \in 1..Len(r) : Before(r[i], entry(k))

\* C6's case: two products with the same summed quantity and n = 1: the one met
\* first is the one returned.
C6_Witness ==
    /\ call.op = "top_selling_products"
    /\ call.n = 1
    /\ Cardinality(Keys("ProductName")) = 2
    /\ SumOver(GroupOf("ProductName", Mouse), QuantityAt)
            = SumOver(GroupOf("ProductName", Keyboard), QuantityAt)
    /\ Len(call.result) = 1
    /\ call.result[1][1] = transactions[1].ProductName

\* C7: customer_analysis returns one entry per distinct CustomerID, with total_spent
\* the customer's sum rounded to 2 decimals, purchase_count the number of the
\* customer's transactions, avg_order_value = unrounded sum / purchase_count rounded
\* to 2 decimals and products_bought the set of the product names bought, ordered
\* by rounded total_spent non-increasing, equal ones in first-encountered order.
C7_CustomerAnalysis ==
    call.op = "customer_analysis" =>
        LET r == call.result
        IN  /\ Len(r) = Cardinality(Keys("CustomerID"))
            /\ KeysOf(r) = Keys("CustomerID")
            /\ \A i \in 1..Len(r) :
                    LET g == GroupOf("CustomerID", r[i].key)
                    IN  /\ IsRounded2(r[i].total_spent.hundredths, SumOver(g, AmountAt), Unit)
                        /\ r[i].purchase_count = Cardinality(g)
                        /\ IsNearest2(r[i].avg_order_value.hundredths,
                                      SumOver(g, AmountAt), Unit * Cardinality(g))
                        /\ r[i].products_bought = {transactions[m].ProductName : m \in g}
            /\ \A i, j \in 1..Len(r) :
                    i < j =>
                        \/ r[i].total_spent.hundredths > r[j].total_spent.hundredths
                        \/ /\ r[i].total_spent = r[j].total_spent
                           /\ FirstSeen("CustomerID", r[i].key)
                                < FirstSeen("CustomerID", r[j].key)

\* C7's case: two customers with the same rounded total, the first met listed
\* first, one of them with two purchases of one product.
C7_Witness ==
    /\ call.op = "customer_analysis"
    /\ Len(call.result) = 2
    /\ call.result[1].total_spent = call.result[2].total_spent
    /\ call.result[1].key = transactions[1].CustomerID
    /\ \E i \in 1..2 :
            /\ call.result[i].purchase_count = 2
            /\ Cardinality(call.result[i].products_bought) = 1

\* C8: daily_sales_trend returns one entry per distinct Date, with revenue the
\* date's sum rounded to 2 decimals, transaction_count the number of transactions of
\* the date and unique_customers the number of distinct CustomerIDs of the date
\* (between 1 and transaction_count), ordered by Date ascending in lexicographic
\* order whatever the order of the input.
C8_DailySalesTrend ==
    call.op = "daily_sales_trend" =>
        LET r == call.result
        IN  /\ Len(r) = Cardinality(Keys("Date"))
            /\ KeysOf(r) = Keys("Date")
            /\ \A i \in 1..Len(r) :
                    LET g == GroupOf("Date", r[i].key)
                    IN  /\ IsRounded2(r[i].revenue.hundredths, SumOver(g, AmountAt), Unit)
                        /\ r[i].transaction_count = Cardinality(g)
                        /\ r[i].unique_customers
                                = Cardinality({transactions[m].CustomerID : m \in g})
                        /\ 1 <= r[i].unique_customers
                        /\ r[i].unique_customers <= r[i].transaction_count
            /\ \A i, j \in 1..Len(r) : i < j => LexBefore(r[i].key, r[j].key)

\* C8's case: the later date comes first in the input and second in the result,
\* and one date has two transactions of one customer.
C8_Witness ==
    /\ call.op = "daily_sales_trend"
    /\ Len(call.result) = 2
    /\ transactions[1].Date = Dec02
    /\ call.result[1].key = Dec01
    /\ \E i \in 1..2 :
            /\ call.result[i].transaction_count = 2
            /\ call.result[i].unique_customers = 1

\* C9: find_peak_sales_day returns None for the empty list and otherwise the
\* (date, revenue, transaction_count) of an entry of daily_sales_trend whose revenue
\* is the greatest rounded daily revenue, the lexicographically earliest date among
\* those that share it.
PeakIsOf(peak, d) ==
    /\ \E i \in 1..Len(d) :
            /\ d[i].key = peak[1]
            /\ d[i].revenue = peak[2]
            /\ d[i].transaction_count = peak[3]
    /\ IsRounded2(peak[2].hundredths, GroupAmount("Date", peak[1]), Unit)
    /\ peak[3] = Cardinality(GroupOf("Date", peak[1]))
    /\ \A j \in 1..Len(d) :
            /\ d[j].revenue.hundredths <= peak[2].hundredths
            /\ (d[j].revenue = peak[2] /\ d[j].key # peak[1]
                    => LexBefore(peak[1], d[j].key))

C9_PeakSalesDay ==
    call.op = "find_peak_sales_day" =>
        IF transactions = <<>> THEN call.result = None
        ELSE /\ call.result # None
             /\ PeakIsOf(call.result[1], daily_sales_trend(transactions))

\* C9's case: two dates with the same rounded revenue, the later one first in the
\* input and with the greater revenue before rounding; the earlier one is returned.
C9_Witness ==
    /\ call.op = "find_peak_sales_day"
    /\ call.result # None
    /\ call.result[1][1] = Dec01
    /\ transactions[1].Date = Dec02
    /\ GroupAmount("Date", Dec01) < GroupAmount("Date", Dec02)
    /\ IsRounded2(call.result[1][2].hundredths, GroupAmount("Date", Dec02), Unit)

AllPassedValidation == \A i \in Idx : PassedValidation(transactions[i])
SumOfHundredths(c) ==
    SumOver(1..Len(c), [i \in 1..Len(c) |-> c[i].total_spent.hundredths])
SumOfTotalSpent == SumOfHundredths(customer_analysis(transactions))
\* 2 * |diff| <= bound
WithinHalf(diff, bound) == 2 * diff <= bound /\ -2 * diff <= bound
SumOfGroups(field) ==
    SumOver(Keys(field), [k \in Keys(field) |-> GroupAmount(field, k)])

\* C10 as stated: on a validated list calculate_total_revenue equals the sum of the
\* region totals before rounding and the sum of the total_spent values that
\* customer_analysis returns (total_spent is in hundredths, the revenue in 1/Unit).
C10_RevenueEqualsReturnedTotals ==
    call.op = "calculate_total_revenue" /\ AllPassedValidation =>
        /\ call.result = Exact(SumOfGroups("Region"))
        /\ 100 * call.result.units = Unit * SumOfTotalSpent

\* C10 amended: on a validated list calculate_total_revenue equals the sum of the
\* region totals before rounding and the sum of the per-customer totals before
\* rounding; the sum of the returned total_spent values, each rounded to 2
\* decimals, is within 0.005 per customer of it.
C10_RevenueEqualsUnroundedTotals ==
    call.op = "calculate_total_revenue" /\ AllPassedValidation =>
        /\ call.result = Exact(SumOfGroups("Region"))
        /\ call.result = Exact(SumOfGroups("CustomerID"))
        /\ WithinHalf(100 * call.result.units - Unit * SumOfTotalSpent,
                      Unit * Cardinality(Keys("CustomerID")))

\* C10's case: a validated list of two regions and two customers whose rounded
\* totals do not add up to the revenue.
C10_Witness ==
    /\ call.op = "calculate_total_revenue"
    /\ AllPassedValidation
    /\ Cardinality(Keys("Region")) = 2
    /\ Cardinality(Keys("CustomerID")) = 2
    /\ Len(transactions) = 3
    /\ 100 * call.result.units # Unit * SumOfTotalSpent

SumOfPercentages ==
    SumOver(1..Len(call.result), [i \in 1..Len(call.result) |->
                call.result[i].percentage.hundredths])
PercentageOff ==
    IF SumOfPercentages < 100 * 100 THEN 100 * 100 - SumOfPercentages
    ELSE SumOfPercentages - 100 * 100

\* C11 as stated: on a non-empty validated list, whatever the number of regions,
\* the percentages of region_wise_sales add up to 100 within 0.1 (percentages are
\* in hundredths).
C11_PercentagesWithinTenth ==
    call.op = "region_wise_sales" /\ transactions # <<>> /\ AllPassedValidation =>
        PercentageOff <= 10

\* C11 amended: on a non-empty validated list the percentages of region_wise_sales
\* add up to 100 within 0.005 per distinct region, and so within 0.1 when there
\* are at most 20 regions.
C11_PercentagesWithinHalfCentPerRegion ==
    call.op = "region_wise_sales" /\ transactions # <<>> /\ AllPassedValidation =>
        /\ Len(call.result) = Cardinality(Keys("Region"))
        /\ 2 * PercentageOff <= Len(call.result)
        /\ (Len(call.result) <= 20 => PercentageOff <= 10)

\* C11's case: a validated list of more than 20 regions whose percentages add up
\* to more than 100.1.
C11_Witness ==
    /\ call.op = "region_wise_sales"
    /\ AllPassedValidation
    /\ Len(call.result) > 20
    /\ SumOfPercentages > 100 * 100 + 10

\* ------------------------------------------------------ claims on zero records
\* C12: no aggregation and no report divides by zero, whatever the list; on the
\* empty list the total is 0, the region, customer and daily mappings and the top
\* products are empty, the peak day is None, and the report writes an average
\* order value of 0, the date range N/A, the best day N/A and a success rate of 0.
C12_NoDivisionByZero ==
    /\ (call.op = "region_wise_sales" =>
            ~ZeroDivisionError(region_wise_sales_divisors(transactions)))
    /\ (call.op = "customer_analysis" =>
            ~ZeroDivisionError(customer_analysis_divisors(transactions)))
    /\ (call.op = "generate_sales_report" => ~call.result.raised)
    /\ (transactions = <<>> =>
            /\ (call.op = "calculate_total_revenue" => call.result = Exact(0))
            /\ (call.op \in {"region_wise_sales", "customer_analysis", "daily_sales_trend",
                             "top_selling_products"} => call.result = <<>>)
            /\ (call.op = "find_peak_sales_day" => call.result = None)
            /\ (call.op = "generate_sales_report" =>
                    /\ call.result.avg_order_value = [hundredths |-> 0]
                    /\ call.result.date_range = NA
                    /\ call.result.best_day = NA
                    /\ call.result.success_rate = [hundredths |-> 0]))

\* The report of no transaction, given enriched records all the same.
C12_Witness ==
    /\ call.op = "generate_sales_report"
    /\ transactions = <<>>
    /\ call.result.total_enriched > 0
    /\ call.result.success_rate = [hundredths |-> 0]

\* ------------------------------------------------------ claims on the parsing
ParsedByMain == \E i \in 1..Len(stages) : stages[i] = "parse"

\* The places of the separators of a line, and its k-th field: the text between
\* the separators k - 1 and k.
Bars(line) == {i \in 1..Len(line) : line[i] = "|"}
BarAt(line, k) ==
    IF k = 0 THEN 0
    ELSE IF k > Cardinality(Bars(line)) THEN Len(line) + 1
    ELSE CHOOSE i \in Bars(line) : Cardinality({j \in Bars(line) : j <= i}) = k
FieldAt(line, k) == SubSeq(line, BarAt(line, k - 1) + 1, BarAt(line, k) - 1)
WithoutCommas(s) == SelectSeq(s, LAMBDA c : c # ",")

\* The kind of a character in the text of a number.
CharClass(c) ==
    IF c \in NumberSpace THEN "space"
    ELSE IF c \in {"+", "-"} THEN "sign"
    ELSE IF DigitValue(c) >= 0 THEN "digit"
    ELSE IF c = "_" THEN "under"
    ELSE IF c = "." THEN "point"
    ELSE IF c \in {"e", "E"} THEN "e"
    ELSE "other"

\* The texts that Python reads as an integer: blanks, a sign, digits with single
\* underscores between them, blanks.  The reader goes from state to state.
IntegerStep(state, class) ==
    CASE state = "lead" /\ class = "space" -> "lead"
      [] state = "lead" /\ class = "sign" -> "sign"
      [] state \in {"lead", "sign", "digit", "under"} /\ class = "digit" -> "digit"
      [] state = "digit" /\ class = "under" -> "under"
      [] state \in {"digit", "trail"} /\ class = "space" -> "trail"
      [] OTHER -> "bad"

\* The texts that Python reads as a decimal number: blanks, a sign, digits with at
\* most one point among them and at least one digit, an exponent, blanks.
NumberStep(state, class) ==
    CASE state = "lead" /\ class = "space" -> "lead"
      [] state = "lead" /\ class = "sign" -> "sign"
      [] state \in {"lead", "sign", "whole", "wholeU"} /\ class = "digit" -> "whole"
      [] state \in {"lead", "sign"} /\ class = "point" -> "point0"
      [] state = "whole" /\ class = "under" -> "wholeU"
      [] state = "whole" /\ class = "point" -> "point1"
      [] state \in {"point0", "point1", "frac", "fracU"} /\ class = "digit" -> "frac"
      [] state = "frac" /\ class = "under" -> "fracU"
      [] state \in {"whole", "point1", "frac"} /\ class = "e" -> "e"
      [] state = "e" /\ class = "sign" -> "esign"
      [] state \in {"e", "esign", "exp", "expU"} /\ class = "digit" -> "exp"
      [] state = "exp" /\ class = "under" -> "expU"
      [] state \in {"whole", "point1", "frac", "exp", "trail"} /\ class = "space" -> "trail"
      [] OTHER -> "bad"

RECURSIVE Scan(_, _, _)
Scan(kind, state, s) ==
    IF s = <<>> THEN state
    ELSE Scan(kind,
              IF kind = "integer" THEN IntegerStep(state, CharClass(Head(s)))
              ELSE NumberStep(state, CharClass(Head(s))),
              Tail(s))

IsIntegerText(s) == Scan("integer", "lead", s) \in {"digit", "trail"}

\* inf, infinity and nan in any case, with a sign or none, between blanks.
NamedNumbers ==
    {<<"i", "n", "f">>, <<"i", "n", "f", "i", "n", "i", "t", "y">>, <<"n", "a", "n">>}
SameLetter(c, small) ==
    c = small \/ \E k \in 1..Len(LowerCase) : LowerCase[k] = small /\ UpperCase[k] = c
IsName(s) ==
    \E name \in NamedNumbers :
        Len(s) = Len(name) /\ \A i \in 1..Len(s) : SameLetter(s[i], name[i])
IsNamedNumber(s) ==
    \E a \in 0..Len(s), b \in 0..Len(s) :
        /\ a < b
        /\ \A j \in (1..a) \cup ((b + 1)..Len(s)) : s[j] \in NumberSpace
        /\ \/ IsName(SubSeq(s, a + 1, b))
           \/ s[a + 1] \in {"+", "-"} /\ IsName(SubSeq(s, a + 2, b))

IsNumberText(s) ==
    \/ Scan("number", "lead", s) \in {"whole", "point1", "frac", "exp", "trail"}
    \/ IsNamedNumber(s)

\* The line has 8 fields, and its 5th and 6th, the commas removed, are numbers.
Parseable(line) ==
    /\ Cardinality(Bars(line)) + 1 = 8
    /\ IsIntegerText(WithoutCommas(FieldAt(line, 5)))
    /\ IsNumberText(WithoutCommas(FieldAt(line, 6)))

ParseableLines == Sublist(raw_lines, Parseable)

TransactionKeys ==
    {"TransactionID", "Date", "ProductID", "ProductName", "Quantity", "UnitPrice",
     "CustomerID", "Region"}

TextFields ==
    <<"TransactionID", "Date", "ProductID", "ProductName", "Quantity", "UnitPrice",
      "CustomerID", "Region">>

TextColumns == {1, 2, 3, 4, 7, 8}

RuleBrokenCount == Cardinality({i \in Idx : RuleBroken(transactions[i])})

Trimmed(s) == s = <<>> \/ (s[1] \notin Whitespace /\ s[Len(s)] \notin Whitespace)
HasComma(s) == \E i \in 1..Len(s) : s[i] = ","

\* t is s without the whitespace at its two ends.
IsTrimOf(t, s) ==
    /\ Trimmed(t)
    /\ \E a \in 0..Len(s), b \in 0..Len(s) :
            /\ a <= b
            /\ t = SubSeq(s, a + 1, b)
            /\ \A j \in (1..a) \cup ((b + 1)..Len(s)) : s[j] \in Whitespace

\* The text with a space for each comma.
Spaced(s) == [j \in 1..Len(s) |-> IF s[j] = "," THEN " " ELSE s[j]]

\* The number that a text of the digits 0 to 9 writes.
PlainDigits(s) == s # <<>> /\ \A i \in 1..Len(s) : s[i] \in {Digits[k] : k \in 1..10}
RECURSIVE PlainValue(_)
PlainValue(s) ==
    IF s = <<>> THEN 0
    ELSE 10 * PlainValue(SubSeq(s, 1, Len(s) - 1))
         + (CHOOSE k \in 0..9 : Digits[k + 1] = s[Len(s)])

\* The record is the one of the line: its text fields are the fields of the line
\* trimmed, and its quantity is the number that plain digits write.
RecordOfLine(t, line) ==
    /\ DOMAIN t = TransactionKeys
    /\ \A k \in TextColumns \ {4} : IsTrimOf(t[TextFields[k]], FieldAt(line, k))
    /\ IsTrimOf(t.ProductName, Spaced(FieldAt(line, 4)))
    /\ (PlainDigits(WithoutCommas(FieldAt(line, 5)))
            => t.Quantity = PlainValue(WithoutCommas(FieldAt(line, 5))))
    /\ DOMAIN t.UnitPrice \in {{"units"}, {"sign", "mant", "exp"}, {"special"}}

\* C13: parse_transactions emits one record for each line of 8 fields whose
\* quantity and price, the commas removed, are numbers, and for no other line; the
\* records are in the order of their lines and have the eight keys; the lines left
\* out count neither as input nor as invalid in validate_and_filter.
C13_OneRecordPerParseableLine ==
    ParsedByMain =>
        /\ Len(transactions) = Len(ParseableLines)
        /\ \A i \in 1..Len(transactions) : RecordOfLine(transactions[i], ParseableLines[i])
        /\ (call.op = "validate_and_filter" =>
                /\ call.result.filter_summary.total_input = Len(ParseableLines)
                /\ call.result.filter_summary.invalid = RuleBrokenCount
                /\ call.result.invalid_count <= Len(ParseableLines))

\* Two lines were read; the one left out has a price that is no number, the one
\* emitted has form feeds around its quantity and the price 1e2, which is 100; the
\* validation counted one input.
C13_Witness ==
    /\ ParsedByMain
    /\ Len(raw_lines) = 2
    /\ Len(transactions) = 1
    /\ \E i \in 1..2 :
            /\ \E j \in 1..Len(FieldAt(raw_lines[i], 5)) : FieldAt(raw_lines[i], 5)[j] = "\f"
            /\ FieldAt(raw_lines[i], 6) = <<"1", "e", "2">>
    /\ transactions[1].Quantity = 1
    /\ transactions[1].UnitPrice = Exact(100 * Unit)
    /\ call.op = "validate_and_filter"
    /\ call.result.filter_summary.total_input = 1
    /\ call.result.filter_summary.invalid = 0

\* C14: in every record that parse_transactions emits the ProductName has no
\* comma, each comma of the raw field having become one space before the trimming,
\* and no text field starts or ends with whitespace; a text field that is clean in
\* the line has the same value in the record.
C14_CleanTextFields ==
    ParsedByMain =>
        /\ Len(transactions) = Len(ParseableLines)
        /\ \A i \in 1..Len(transactions) :
                /\ ~HasComma(transactions[i].ProductName)
                /\ IsTrimOf(transactions[i].ProductName,
                            Spaced(FieldAt(ParseableLines[i], 4)))
                /\ \A k \in TextColumns :
                        /\ Trimmed(transactions[i][TextFields[k]])
                        /\ (Trimmed(FieldAt(ParseableLines[i], k))
                                /\ ~HasComma(FieldAt(ParseableLines[i], k)) =>
                                transactions[i][TextFields[k]] = FieldAt(ParseableLines[i], k))

\* A record of a line whose name had commas and blanks to clean, next to a field
\* that was clean already, and a record of a line whose TransactionID ended in a
\* form feed.
C14_Witness ==
    /\ ParsedByMain
    /\ \E i \in 1..Len(transactions) :
        /\ transactions[i].ProductName = Mouse \o <<" ", "x">>
        /\ HasComma(FieldAt(ParseableLines[i], 4))
        /\ transactions[i].Date = FieldAt(ParseableLines[i], 2)
    /\ \E i \in 1..Len(transactions) :
        /\ transactions[i].TransactionID = T001
        /\ FieldAt(ParseableLines[i], 1) = T001 \o <<"\f">>

\* --------------------------------------------------- claims on the enrichment
EnrichedByMain == \E i \in 1..Len(stages) : stages[i] = "enrich"

\* The lookup as the specification words it: one leading P is removed.
WithoutLeadingP(pid) == IF pid # <<>> /\ Head(pid) = "P" THEN Tail(pid) ELSE pid

FoundAsSpecified(t) ==
    IF int(WithoutLeadingP(t.ProductID)) # None
    THEN HasKey(product_map, IntKey(int(WithoutLeadingP(t.ProductID))[1]))
    ELSE HasKey(product_map, StrKey(t.ProductID))

\* C15: main makes one enriched record of each valid transaction, and flags it
\* enriched exactly when the mapping has the ProductID without its one leading P
\* as a number or, when that is no number, has the ProductID itself.
C15_LookupWithoutLeadingP ==
    EnrichedByMain =>
        /\ Len(enriched_transactions) = Len(valid_transactions)
        /\ \A i \in 1..Len(valid_transactions) :
                enriched_transactions[i].enriched = FoundAsSpecified(valid_transactions[i])

\* ------------------------------------------------------- claims on the report
FlaggedCount(enriched) ==
    Cardinality({i \in 1..Len(enriched) :
                    "enriched" \in DOMAIN enriched[i] /\ enriched[i].enriched})

\* C16: whatever the two lists, the success rate that the report writes lies
\* between 0 and 100, and the count that it writes is the number of records of
\* enriched_transactions that are flagged enriched.
C16_SuccessRateWithinHundred ==
    call.op = "generate_sales_report" =>
        /\ call.result.success_rate.hundredths >= 0
        /\ call.result.success_rate.hundredths <= 100 * 100
        /\ call.result.total_enriched = FlaggedCount(call.enriched_transactions)

\* ----------------------------------------------------- claims on the run of main
AllStages == <<"read", "parse", "validate", "analyse", "fetch", "enrich", "dump", "report">>
OutputFiles == <<"output/enriched_sales_data.txt", "output/sales_report.txt">>

\* C17: main runs its stages in the order read, parse, validate, analysis,
\* enrichment, dump, report, one after the other; the two output files are written
\* only after the validation returned a valid transaction; when no line was read or
\* no transaction is valid, main ends with no analysis, no lookup and no file.
C17_StagesInOrder ==
    /\ Len(stages) <= Len(AllStages)
    /\ stages = SubSeq(AllStages, 1, Len(stages))
    /\ Len(files) <= Len(OutputFiles)
    /\ \A i \in 1..Len(files) : files[i].name = OutputFiles[i]
    /\ (files # <<>> =>
            /\ valid_transactions # <<>>
            /\ Len(stages) >= 7
            /\ files[1].content.rows = Len(valid_transactions))
    /\ (Len(files) = 2 => pc = "done" /\ stages = AllStages)
    /\ (pc = "done" /\ raw_lines = <<>> => stages = <<"read">>)
    /\ (pc = "done" /\ raw_lines # <<>> /\ valid_transactions = <<>> =>
            stages = <<"read", "parse", "validate">>)
    /\ (pc = "done" /\ (raw_lines = <<>> \/ valid_transactions = <<>>) =>
            /\ call.op # "analyse"
            /\ product_map = <<>>
            /\ enriched_transactions = <<>>
            /\ files = <<>>)
    /\ (pc = "done" /\ raw_lines # <<>> /\ valid_transactions # <<>> =>
            Len(files) = 2)

\* Lines were read and parsed, none was valid, and main has ended.
C17_Witness ==
    /\ pc = "done"
    /\ raw_lines # <<>>
    /\ transactions # <<>>
    /\ valid_transactions = <<>>
    /\ files = <<>>

\* ------------------------------------------------------- claims on the frame
\* C18: no call changes the list it is given: after any sequence of calls of
\* validate_and_filter, the six aggregations and the enrichment, the list has the
\* same records in the same order.
C18_InputUnchanged == [][transactions' = transactions]_vars

\* A list was enriched, one of its records was found in the mapping, and the list
\* has no enrichment field.
C18_Witness ==
    /\ call.op = "enrich"
    /\ \E i \in 1..Len(call.result) : call.result[i].enriched
    /\ \A i \in 1..Len(transactions) : DOMAIN transactions[i] = TransactionKeys

====
